---- MODULE Spec2Model ----
(***************************************************************************)
(* BombSquad multiplayer server: the room registry, the GameRoom state     *)
(* machine and its timers, as implemented in server.js.                    *)
(*                                                                         *)
(* Socket ids are modelled as 1..NumConns (opaque unique strings in the    *)
(* code), room ids as 1..MaxRooms (`room_<now>_<random>` in the code: a    *)
(* fresh value per createRoom).  Coordinates are integers.  A JavaScript   *)
(* Map is a sequence of entries in insertion order (MapGet/MapSet/...).    *)
(***************************************************************************)
EXTENDS Integers, Sequences, FiniteSets, Bags, TLC

\* ------------------------------------------------------------------ bounds
NumConns == 3
MaxRooms == 2
MaxTime == 11000
MaxLayoutCells == 1

\* ------------------------------------------------------- program constants
ArenaWidth == 1024
ArenaHeight == 768
GridSize == 64
DefaultMaxPlayers == 4
StartHealth == 100
MaxHealth == 100
StartBombCapacity == 1
StartBombPower == 3
FuseTime == 3000
ChainDelay == 50
AutoStartDelay == 2000
StateUpdateDelay == 500
SyncPeriod == 10000
BlastDamage == 25
HealAmount == 30
RoundSeconds == 120

Conns == 1..NumConns
RoomIds == 1..MaxRooms

VARIABLES
    sockets,        \* io.sockets.sockets: the ids of the connected sockets
    nextConn,       \* the id the next connecting socket gets
    rooms,          \* every GameRoom object created so far, by room id
    gameRooms,      \* the registry: ids of the rooms in the gameRooms Map
    playerSockets,  \* the playerSockets Map: socket id -> [roomId, playerId]
    joined,         \* socket.io room membership: <<socket id, room id>>
    timers,         \* pending setTimeout/setInterval callbacks (a bag)
    now,            \* Date.now()
    emitted,        \* the events sent by the last handler or callback
    transitioningPlayers  \* the README listing's transitioningPlayers Map

vars == <<sockets, nextConn, rooms, gameRooms, playerSockets, joined,
          timers, now, emitted, transitioningPlayers>>

\* ---------------------------------------------------------- Map helpers
\* A Map whose entries carry their key in field `id`.
MapHas(m, k) == \E i \in DOMAIN m : m[i].id = k

MapIndex(m, k) == CHOOSE i \in DOMAIN m : m[i].id = k

MapGet(m, k) == m[MapIndex(m, k)]

MapSet(m, k, v) ==
    IF MapHas(m, k) THEN [m EXCEPT ![MapIndex(m, k)] = v] ELSE Append(m, v)

\* Map.delete that leaves the entry in place.
MapDeleteKeeps(m, k) == m

MapDelete(m, k) == SelectSeq(m, LAMBDA e : e.id # k)

MapKeys(m) == {m[i].id : i \in DOMAIN m}

Abs(n) == IF n < 0 THEN -n ELSE n

Min(a, b) == IF a <= b THEN a ELSE b

Max(a, b) == IF a >= b THEN a ELSE b

\* Math.round(v / GridSize) * GridSize for an integer v: Math.round rounds
\* halves towards +infinity, i.e. floor(v / 64 + 1/2).
SnapToGrid(v) == ((v + GridSize \div 2) \div GridSize) * GridSize

\* `a || b` on numbers: 0 (like undefined and NaN) is falsy.
OrElse(a, b) == IF a = 0 THEN b ELSE a


\* The elements of a finite set of integers as an ascending sequence.
RECURSIVE SortedSeq(_)
SortedSeq(S) ==
    IF S = {} THEN <<>>
    ELSE LET m == CHOOSE a \in S : \A b \in S : a <= b
         IN <<m>> \o SortedSeq(S \ {m})

\* ---------------------------------------------------------------- events
Event(to, ev, data) == [to |-> to, event |-> ev, data |-> data]

\* io.emit(ev, data): every connected socket gets the event.
EmitToAll(to, ev, data) ==
    LET all == SortedSeq(sockets)
    IN [i \in 1..Len(all) |-> Event(all[i], ev, data)]

\* socket.emit(ev, data) on socket `to`.
EmitTo(to, ev, data) == <<Event(to, ev, data)>>

\* GameRoom.broadcastToRoom: one emit per player, in Map order, whose socket
\* is still in io.sockets.sockets (`socks`).
broadcastToRoom(room, socks, ev, data) ==
    LET live == SelectSeq(room.players, LAMBDA p : p.socket \in socks)
    IN [i \in 1..Len(live) |-> Event(live[i].socket, ev, data)]

\* socket.to(roomId).emit(ev, data): every socket that joined the socket.io
\* room except the sender.
EmitToOthers(c, roomId, ev, data) ==
    LET others == SortedSeq({s \in sockets : s # c /\ <<s, roomId>> \in joined})
    IN [i \in 1..Len(others) |-> Event(others[i], ev, data)]

\* -------------------------------------------------------------- geometry
Cell(x, y) == [x |-> x, y |-> y]

SpawnPositions ==
    << Cell(64, 64), Cell(ArenaWidth - 64, 64),
       Cell(64, ArenaHeight - 64), Cell(ArenaWidth - 64, ArenaHeight - 64) >>

IndestructibleCells ==
    { Cell(200, 200), Cell(200, 400), Cell(200, 600), Cell(400, 200),
      Cell(400, 600), Cell(600, 200), Cell(600, 600), Cell(800, 200),
      Cell(800, 400), Cell(800, 600) }

\* initializeDestructibleBlocks: the scan's cells, x-major, and `tooClose`.
ScanXs == {x \in 100..(ArenaWidth - 101) : (x - 100) % GridSize = 0}

ScanYs == {y \in 100..(ArenaHeight - 101) : (y - 100) % GridSize = 0}

TooClose(x, y) ==
    \/ \E i \in DOMAIN SpawnPositions :
          /\ Abs(x - SpawnPositions[i].x) < 100
          /\ Abs(y - SpawnPositions[i].y) < 100
    \/ \E pos \in IndestructibleCells :
          Abs(x - pos.x) < 50 /\ Abs(y - pos.y) < 50

\* The scan order of the candidate cells as one sequence.
ScanCells ==
    LET xs == SortedSeq(ScanXs)
        ys == SortedSeq(ScanYs)
    IN [n \in 1..(Len(xs) * Len(ys)) |->
            Cell(xs[((n - 1) \div Len(ys)) + 1], ys[((n - 1) % Len(ys)) + 1])]

\* The destructibleBlocks array when Math.random() < 0.6 came out true
\* exactly for the cells of `chosen`.
initializeDestructibleBlocks(chosen) ==
    SelectSeq(ScanCells, LAMBDA c : ~TooClose(c.x, c.y) /\ c \in chosen)

Near32(a, b) == Abs(a.x - b.x) < 32 /\ Abs(a.y - b.y) < 32

\* Math.sqrt(dx^2 + dy^2) < 40 on integers.
Within40(a, b) ==
    (a.x - b.x) * (a.x - b.x) + (a.y - b.y) * (a.y - b.y) < 40 * 40

Directions == << Cell(1, 0), Cell(-1, 0), Cell(0, 1), Cell(0, -1) >>

\* A ray that a destructible block does not stop.
RECURSIVE ExplosionRayThrough(_, _, _, _, _, _)
ExplosionRayThrough(x, y, dir, i, power, blocks) ==
    IF i > power THEN <<>>
    ELSE LET checkX == x + (dir.x * GridSize * i)
             checkY == y + (dir.y * GridSize * i)
         IN IF \/ checkX < 50 \/ checkX > ArenaWidth - 50
               \/ checkY < 50 \/ checkY > ArenaHeight - 50
            THEN <<>>
            ELSE <<Cell(checkX, checkY)>>
                     \o ExplosionRayThrough(x, y, dir, i + 1, power, blocks)

\* One direction of calculateExplosion, from step i on.
RECURSIVE ExplosionRay(_, _, _, _, _, _)
ExplosionRay(x, y, dir, i, power, blocks) ==
    IF i > power THEN <<>>
    ELSE LET checkX == x + (dir.x * GridSize * i)
             checkY == y + (dir.y * GridSize * i)
             blocked == \E b \in DOMAIN blocks :
                            Near32(blocks[b], Cell(checkX, checkY))
         IN IF \/ checkX < 50 \/ checkX > ArenaWidth - 50
               \/ checkY < 50 \/ checkY > ArenaHeight - 50
            THEN <<>>
            ELSE IF blocked THEN <<Cell(checkX, checkY)>>
            ELSE <<Cell(checkX, checkY)>>
                     \o ExplosionRay(x, y, dir, i + 1, power, blocks)

\* GameRoom.calculateExplosion
calculateExplosion(x, y, power, blocks) ==
    <<Cell(x, y)>>
        \o ExplosionRay(x, y, Directions[1], 1, power, blocks)
        \o ExplosionRay(x, y, Directions[2], 1, power, blocks)
        \o ExplosionRay(x, y, Directions[3], 1, power, blocks)
        \o ExplosionRay(x, y, Directions[4], 1, power, blocks)


\* -------------------------------------------------------------- GameRoom
DefaultNames == <<"Player 1", "Player 2", "Player 3", "Player 4">>

NoTime == -1

\* new GameRoom(roomId, maxPlayers) with the block layout `chosen`.
NewGameRoom(roomId, maxPlayers, chosen) ==
    [ roomId |-> roomId,
      maxPlayers |-> maxPlayers,
      players |-> <<>>,
      gameState |-> "waiting",
      gameStartTime |-> NoTime,
      bombs |-> <<>>,
      powerUps |-> <<>>,
      destructibleBlocks |-> initializeDestructibleBlocks(chosen),
      roundTimer |-> RoundSeconds ]

\* The player object GameRoom.addPlayer builds; name "" stands for a
\* missing name.
NewPlayer(playerId, socketId, name) ==
    [ id |-> playerId,
      socket |-> socketId,
      name |-> IF name = "" THEN DefaultNames[playerId] ELSE name,
      x |-> SpawnPositions[playerId].x,
      y |-> SpawnPositions[playerId].y,
      health |-> StartHealth,
      isAlive |-> TRUE,
      bombCapacity |-> StartBombCapacity,
      bombCount |-> 0,
      bombPower |-> StartBombPower,
      powerUps |-> [speed |-> 10, bombs |-> 0, power |-> 0] ]

\* GameRoom.addPlayer raises a TypeError: the room has a free seat, but the
\* seat number players.size + 1 has no entry in spawnPositions, and
\* spawnPositions[playerId - 1].x reads a property of undefined.
addPlayerThrows(room) ==
    /\ Len(room.players) < room.maxPlayers
    /\ Len(room.players) + 1 > Len(SpawnPositions)

\* addPlayer without the capacity test.
addPlayerNoLimit(room, socketId, name) ==
    LET playerId == Len(room.players) + 1
        player == NewPlayer(playerId, socketId, name)
    IN [ ok |-> TRUE,
         room |-> [room EXCEPT !.players = MapSet(@, playerId, player)],
         player |-> player ]

\* GameRoom.addPlayer: [ok, room, player]; ok = FALSE is `return false`.
\* The new id is players.size + 1, set into the Map under that key.
addPlayer(room, socketId, name) ==
    IF Len(room.players) >= room.maxPlayers
    THEN [ok |-> FALSE, room |-> room, player |-> <<>>]
    ELSE LET playerId == Len(room.players) + 1
             player == NewPlayer(playerId, socketId, name)
         IN [ ok |-> TRUE,
              room |-> [room EXCEPT !.players = MapSet(@, playerId, player)],
              player |-> player ]

\* GameRoom.removePlayer: [playerId, room]; playerId 0 is `return null`.
removePlayer(room, socketId) ==
    IF \E i \in DOMAIN room.players : room.players[i].socket = socketId
    THEN LET i == CHOOSE j \in DOMAIN room.players :
                    /\ room.players[j].socket = socketId
                    /\ \A k \in 1..(j - 1) : room.players[k].socket # socketId
             playerId == room.players[i].id
         IN [ playerId |-> playerId,
              room |-> [room EXCEPT !.players = MapDelete(@, playerId)] ]
    ELSE [playerId |-> 0, room |-> room]

\* canStartGame without the phase.
canStartGameAnyPhase(room) == Len(room.players) >= 2

\* canStartGame without the player count.
canStartGameAlone(room) == room.gameState = "waiting"

\* GameRoom.canStartGame
canStartGame(room) == Len(room.players) >= 2 /\ room.gameState = "waiting"

\* GameRoom.startGame (the sync interval it arms is a timer of the caller).
startGame(room, t) ==
    [room EXCEPT !.gameState = "playing",
                 !.gameStartTime = t,
                 !.roundTimer = RoundSeconds]

\* GameRoom.updatePlayer: [ok, room].
updatePlayer(room, playerId, x, y) ==
    IF MapHas(room.players, playerId) /\ MapGet(room.players, playerId).isAlive
    THEN LET player == MapGet(room.players, playerId)
             moved == [player EXCEPT
                 !.x = Max(32, Min(ArenaWidth - 32, OrElse(x, player.x))),
                 !.y = Max(32, Min(ArenaHeight - 32, OrElse(y, player.y)))]
         IN [ ok |-> TRUE,
              room |-> [room EXCEPT !.players = MapSet(@, playerId, moved)] ]
    ELSE [ok |-> FALSE, room |-> room]

\* The id `bomb_${Date.now()}_${playerId}`.
BombId(t, playerId) == <<t, playerId>>

\* placeBomb without the `!player.isAlive` test of its first line.
placeBombDeadToo(room, playerId, x, y, t) ==
    IF \/ ~MapHas(room.players, playerId)
       \/ MapGet(room.players, playerId).bombCount
              >= MapGet(room.players, playerId).bombCapacity
    THEN [ok |-> FALSE, room |-> room, bomb |-> <<>>]
    ELSE LET player == MapGet(room.players, playerId)
             bomb == [ id |-> BombId(t, playerId),
                       x |-> SnapToGrid(x), y |-> SnapToGrid(y),
                       owner |-> playerId, power |-> player.bombPower,
                       fuseTime |-> FuseTime, placedAt |-> t ]
         IN IF \E i \in DOMAIN room.bombs : Near32(room.bombs[i], bomb)
            THEN [ok |-> FALSE, room |-> room, bomb |-> <<>>]
            ELSE [ ok |-> TRUE,
                   room |-> [room EXCEPT
                       !.bombs = MapSet(@, bomb.id, bomb),
                       !.players = MapSet(@, playerId,
                           [player EXCEPT !.bombCount = @ + 1])],
                   bomb |-> bomb ]

\* placeBomb without the `bombCount >= bombCapacity` test of its first line.
placeBombNoLimit(room, playerId, x, y, t) ==
    IF \/ ~MapHas(room.players, playerId)
       \/ ~MapGet(room.players, playerId).isAlive
    THEN [ok |-> FALSE, room |-> room, bomb |-> <<>>]
    ELSE LET player == MapGet(room.players, playerId)
             bomb == [ id |-> BombId(t, playerId),
                       x |-> SnapToGrid(x), y |-> SnapToGrid(y),
                       owner |-> playerId, power |-> player.bombPower,
                       fuseTime |-> FuseTime, placedAt |-> t ]
         IN IF \E i \in DOMAIN room.bombs : Near32(room.bombs[i], bomb)
            THEN [ok |-> FALSE, room |-> room, bomb |-> <<>>]
            ELSE [ ok |-> TRUE,
                   room |-> [room EXCEPT
                       !.bombs = MapSet(@, bomb.id, bomb),
                       !.players = MapSet(@, playerId,
                           [player EXCEPT !.bombCount = @ + 1])],
                   bomb |-> bomb ]

\* placeBomb without the test for a bomb already on the cell.
placeBombOnBomb(room, playerId, x, y, t) ==
    IF \/ ~MapHas(room.players, playerId)
       \/ ~MapGet(room.players, playerId).isAlive
       \/ MapGet(room.players, playerId).bombCount
              >= MapGet(room.players, playerId).bombCapacity
    THEN [ok |-> FALSE, room |-> room, bomb |-> <<>>]
    ELSE LET player == MapGet(room.players, playerId)
             bombId == BombId(t, playerId)
             bomb == [ id |-> bombId, x |-> SnapToGrid(x), y |-> SnapToGrid(y),
                       owner |-> playerId, power |-> player.bombPower,
                       fuseTime |-> FuseTime, placedAt |-> t ]
         IN [ ok |-> TRUE,
              room |-> [room EXCEPT
                  !.bombs = MapSet(@, bombId, bomb),
                  !.players = MapSet(@, playerId,
                      [player EXCEPT !.bombCount = @ + 1])],
              bomb |-> bomb ]

\* GameRoom.placeBomb: [ok, room, bomb]; ok = FALSE is `return null`.  The
\* fuse timer is armed by the caller.
placeBomb(room, playerId, x, y, t) ==
    IF \/ ~MapHas(room.players, playerId)
       \/ ~MapGet(room.players, playerId).isAlive
       \/ MapGet(room.players, playerId).bombCount
              >= MapGet(room.players, playerId).bombCapacity
    THEN [ok |-> FALSE, room |-> room, bomb |-> <<>>]
    ELSE LET player == MapGet(room.players, playerId)
             bombX == SnapToGrid(x)
             bombY == SnapToGrid(y)
             bombId == BombId(t, playerId)
             bomb == [ id |-> bombId, x |-> bombX, y |-> bombY,
                       owner |-> playerId, power |-> player.bombPower,
                       fuseTime |-> FuseTime, placedAt |-> t ]
         IN IF \E i \in DOMAIN room.bombs :
                   Near32(room.bombs[i], Cell(bombX, bombY))
            THEN [ok |-> FALSE, room |-> room, bomb |-> <<>>]
            ELSE [ ok |-> TRUE,
                   room |-> [room EXCEPT
                       !.bombs = MapSet(@, bombId, bomb),
                       !.players = MapSet(@, playerId,
                           [player EXCEPT !.bombCount = @ + 1])],
                   bomb |-> bomb ]

\* checkWinCondition putting the room back into the lobby when it is over.
checkWinConditionReopens(room, socks) ==
    LET alivePlayers == SelectSeq(room.players, LAMBDA p : p.isAlive)
    IN IF Len(alivePlayers) <= 1
       THEN LET winner == IF Len(alivePlayers) = 1 THEN alivePlayers[1].id ELSE 0
            IN [ room |-> [room EXCEPT !.gameState = "waiting"],
                 events |-> broadcastToRoom(room, socks, "gameOver",
                                            [winner |-> winner]) ]
       ELSE [room |-> room, events |-> <<>>]

\* checkWinCondition ending the match only when nobody is left alive.
checkWinConditionNoSurvivor(room, socks) ==
    LET alivePlayers == SelectSeq(room.players, LAMBDA p : p.isAlive)
    IN IF Len(alivePlayers) < 1
       THEN [ room |-> [room EXCEPT !.gameState = "finished"],
              events |-> broadcastToRoom(room, socks, "gameOver", [winner |-> 0]) ]
       ELSE [room |-> room, events |-> <<>>]

\* GameRoom.checkWinCondition: [room, events].
checkWinCondition(room, socks) ==
    LET alivePlayers == SelectSeq(room.players, LAMBDA p : p.isAlive)
    IN IF Len(alivePlayers) <= 1
       THEN LET winner == IF Len(alivePlayers) = 1 THEN alivePlayers[1].id ELSE 0
            IN [ room |-> [room EXCEPT !.gameState = "finished"],
                 events |-> broadcastToRoom(room, socks, "gameOver",
                                            [winner |-> winner]) ]
       ELSE [room |-> room, events |-> <<>>]


PowerUpTypes == <<"speed", "bombs", "power", "health">>

\* What the two Math.random() draws of one destroyed block come to: no
\* power-up (the draw was >= 0.3) or one of the four types.
SpawnChoices == {"none"} \cup {PowerUpTypes[i] : i \in DOMAIN PowerUpTypes}

\* The id `powerup_${Date.now()}_${Math.random()}`: the random part is
\* represented by the block's cell, which spawns at most one power-up.
PowerUpId(t, block) == <<t, block.x, block.y>>

\* The blocks explodeBomb's filter removes, in array order.
DestroyedBlocks(blocks, areas) ==
    SelectSeq(blocks, LAMBDA b : \E a \in DOMAIN areas : Near32(b, areas[a]))

\* The powerUps Map after the filter callback ran over `destroyed`.
RECURSIVE SpawnPowerUps(_, _, _, _)
SpawnPowerUps(powerUps, destroyed, spawn, t) ==
    IF destroyed = <<>> THEN powerUps
    ELSE LET block == Head(destroyed)
             powerUpId == PowerUpId(t, block)
             next == IF spawn[block] = "none" THEN powerUps
                     ELSE MapSet(powerUps, powerUpId,
                                 [ id |-> powerUpId, type |-> spawn[block],
                                   x |-> block.x, y |-> block.y,
                                   spawnedAt |-> t ])
         IN SpawnPowerUps(next, Tail(destroyed), spawn, t)

\* The damage loop without its `break`: 25 for every affected cell in range.
DamagePlayerPerCell(player, areas) ==
    LET hits == Cardinality({a \in DOMAIN areas : Within40(player, areas[a])})
    IN IF player.isAlive /\ hits > 0
       THEN [player EXCEPT !.health = @ - hits * BlastDamage,
                           !.isAlive = (player.health - hits * BlastDamage > 0)]
       ELSE player

\* The damage loop of explodeBomb on one player.
DamagePlayer(player, areas) ==
    IF player.isAlive /\ \E a \in DOMAIN areas : Within40(player, areas[a])
    THEN [player EXCEPT !.health = @ - BlastDamage,
                        !.isAlive = (player.health - BlastDamage > 0)]
    ELSE player

\* The owner's live-bomb count after one of its bombs went off.
DecrementBombCount(n) == n - 1

\* The cells of a detonation computed from the owner's bombPower at the
\* time of the blast instead of the power stored in the bomb.
ExplosionAreasOfOwnerPower(room, bombId) ==
    LET bomb == MapGet(room.bombs, bombId)
        power == IF MapHas(room.players, bomb.owner)
                 THEN MapGet(room.players, bomb.owner).bombPower
                 ELSE bomb.power
    IN calculateExplosion(bomb.x, bomb.y, power, room.destructibleBlocks)

\* The cells a detonation of `bombId` covers (the bomb's stored power).
ExplosionAreasOf(room, bombId) ==
    LET bomb == MapGet(room.bombs, bombId)
    IN calculateExplosion(bomb.x, bomb.y, bomb.power, room.destructibleBlocks)

\* The body of GameRoom.explodeBomb past its guard (the bomb is in the
\* table): [room, events, chain]; chain lists the bombs that get a 50 ms
\* timer, in Map order.  `spawn` maps each destroyed block to its random
\* outcome.
Detonate(room, bombId, t, socks, spawn) ==
         LET bomb == MapGet(room.bombs, bombId)
             bombs1 == MapDelete(room.bombs, bombId)
             players1 ==
                 IF MapHas(room.players, bomb.owner)
                 THEN MapSet(room.players, bomb.owner,
                          [MapGet(room.players, bomb.owner) EXCEPT
                              !.bombCount = DecrementBombCount(@)])
                 ELSE room.players
             explosionAreas == ExplosionAreasOf(room, bombId)
             players2 == [i \in DOMAIN players1 |->
                              DamagePlayer(players1[i], explosionAreas)]
             chainBombs == SelectSeq(bombs1, LAMBDA ob :
                 \E a \in DOMAIN explosionAreas : Within40(ob, explosionAreas[a]))
             destroyedBlocks ==
                 DestroyedBlocks(room.destructibleBlocks, explosionAreas)
             room1 == [room EXCEPT
                 !.bombs = bombs1,
                 !.players = players2,
                 !.destructibleBlocks = SelectSeq(@, LAMBDA b :
                     ~\E a \in DOMAIN explosionAreas : Near32(b, explosionAreas[a])),
                 !.powerUps = SpawnPowerUps(@, destroyedBlocks, spawn, t)]
             win == checkWinCondition(room1, socks)
         IN [ room |-> win.room,
              events |-> broadcastToRoom(room1, socks, "bombExploded",
                             [ bombId |-> bombId,
                               explosionAreas |-> explosionAreas,
                               destroyedBlocks |-> destroyedBlocks ])
                         \o win.events,
              chain |-> [i \in DOMAIN chainBombs |-> chainBombs[i].id] ]

\* explodeBomb without `if (!bomb) return`: a consumed id still announces
\* an (empty) explosion and runs the win check.
explodeBombUnguarded(room, bombId, t, socks, spawn) ==
    IF ~MapHas(room.bombs, bombId)
    THEN LET win == checkWinCondition(room, socks)
         IN [ room |-> win.room,
              events |-> broadcastToRoom(room, socks, "bombExploded",
                             [ bombId |-> bombId,
                               explosionAreas |-> <<>>,
                               destroyedBlocks |-> <<>> ])
                         \o win.events,
              chain |-> <<>> ]
    ELSE Detonate(room, bombId, t, socks, spawn)

\* GameRoom.explodeBomb: a bomb id that is not in the table is ignored.
explodeBomb(room, bombId, t, socks, spawn) ==
    IF ~MapHas(room.bombs, bombId)
    THEN [room |-> room, events |-> <<>>, chain |-> <<>>]
    ELSE Detonate(room, bombId, t, socks, spawn)

\* The blocks a detonation of `bombId` would destroy (the domain of the
\* random outcomes explodeBomb draws).
DestroyedBy(room, bombId) ==
    IF ~MapHas(room.bombs, bombId) THEN {}
    ELSE LET d == DestroyedBlocks(room.destructibleBlocks,
                                  ExplosionAreasOf(room, bombId))
         IN {d[i] : i \in DOMAIN d}

\* GameRoom.collectPowerUp: [ok, room].  The speed multiplier is kept in
\* tenths (1 is 10, +0.3 is +3, the cap 2 is 20).
collectPowerUp(room, playerId, powerUpId) ==
    IF \/ ~MapHas(room.powerUps, powerUpId)
       \/ ~MapHas(room.players, playerId)
       \/ ~MapGet(room.players, playerId).isAlive
    THEN [ok |-> FALSE, room |-> room]
    ELSE LET powerUp == MapGet(room.powerUps, powerUpId)
             player == MapGet(room.players, playerId)
             after ==
                 CASE powerUp.type = "speed" ->
                        [player EXCEPT !.powerUps.speed = Min(@ + 3, 20)]
                   [] powerUp.type = "bombs" ->
                        [player EXCEPT !.bombCapacity = @ + 1,
                                       !.powerUps.bombs = @ + 1]
                   [] powerUp.type = "power" ->
                        [player EXCEPT !.bombPower = @ + 1,
                                       !.powerUps.power = @ + 1]
                   [] powerUp.type = "health" ->
                        [player EXCEPT !.health = Min(@ + HealAmount, MaxHealth)]
                   [] OTHER -> player
         IN [ ok |-> TRUE,
              room |-> [room EXCEPT
                  !.players = MapSet(@, playerId, after),
                  !.powerUps = MapDelete(@, powerUpId)] ]


\* ---------------------------------------------------------------- timers
NoBomb == <<0, 0>>

\* A pending callback: kind, the room it closes over, the bomb id it closes
\* over (explodeBomb timers), the socket id it closes over (delayed cleanup
\* timers, else 0) and the time it is due.
Timer(kind, roomId, bombId, due) ==
    [kind |-> kind, room |-> roomId, bomb |-> bombId, socket |-> 0, due |-> due]

AddTimer(ts, t) == ts (+) SetToBag({t})

DropTimer(ts, t) == ts (-) SetToBag({t})

\* Chain callbacks armed with no delay.
AddChainTimersNoDelay(ts, roomId, chain, t) ==
    ts (+) SetToBag({Timer("chain", roomId, chain[i], t) : i \in DOMAIN chain})

RECURSIVE AddChainTimers(_, _, _, _)
AddChainTimers(ts, roomId, chain, t) ==
    IF chain = <<>> THEN ts
    ELSE AddChainTimers(AddTimer(ts, Timer("chain", roomId, Head(chain), t + ChainDelay)),
                        roomId, Tail(chain), t)

Due(t) == t \in BagToSet(timers) /\ t.due = now

SetRoom(roomId, room) == [rooms EXCEPT ![roomId] = room]

\* ------------------------------------------------------------------ Init
Init ==
    /\ sockets = {}
    /\ nextConn = 1
    /\ rooms = <<>>
    /\ gameRooms = {}
    /\ playerSockets = <<>>
    /\ joined = {}
    /\ timers = EmptyBag
    /\ now = 0
    /\ emitted = <<>>
    /\ transitioningPlayers = <<>>

\* io.on('connection'): a socket with a fresh id connects.  Socket ids are
\* interchangeable, so the next one connects once every connected socket
\* has been seated (its first createRoom or joinRoom succeeded).
ConnectWithin(limit) ==
    /\ nextConn <= limit
    /\ sockets \subseteq DOMAIN playerSockets
    /\ sockets' = sockets \cup {nextConn}
    /\ nextConn' = nextConn + 1
    /\ emitted' = <<>>
    /\ UNCHANGED <<rooms, gameRooms, playerSockets, joined, timers, now,
                   transitioningPlayers>>

Connect == ConnectWithin(NumConns)

\* socket.on('createRoom'); maxPlayers 0 stands for an absent maxPlayers.
CreateRoom(c, maxPlayers, name, chosen) ==
    /\ c \in sockets
    /\ Len(rooms) < MaxRooms
    /\ LET roomId == Len(rooms) + 1
           room == NewGameRoom(roomId, OrElse(maxPlayers, DefaultMaxPlayers), chosen)
           res == addPlayer(room, c, name)
       IN /\ rooms' = Append(rooms, res.room)
          /\ gameRooms' = gameRooms \cup {roomId}
          /\ IF res.ok
             THEN /\ joined' = joined \cup {<<c, roomId>>}
                  /\ playerSockets' =
                        (c :> [roomId |-> roomId, playerId |-> res.player.id])
                            @@ playerSockets
                  /\ emitted' = EmitTo(c, "roomCreated",
                        [roomId |-> roomId, playerId |-> res.player.id])
             ELSE /\ emitted' = <<>>
                  /\ UNCHANGED <<joined, playerSockets>>
    /\ UNCHANGED <<sockets, nextConn, timers, now, transitioningPlayers>>

\* socket.on('joinRoom').  (A join that would seat a fifth player throws in
\* addPlayer; JoinRoom covers the joins that do not.)
JoinRoom(c, roomId, name) ==
    /\ c \in sockets
    /\ UNCHANGED <<sockets, nextConn, gameRooms, now, transitioningPlayers>>
    /\ IF c \in DOMAIN playerSockets
       THEN /\ emitted' = <<>>
            /\ UNCHANGED <<rooms, playerSockets, joined, timers>>
       ELSE IF roomId \notin gameRooms
       THEN /\ emitted' = EmitTo(c, "error", [message |-> "Room not found"])
            /\ UNCHANGED <<rooms, playerSockets, joined, timers>>
       ELSE LET res == addPlayer(rooms[roomId], c, name)
            IN /\ ~addPlayerThrows(rooms[roomId])
               /\ IF res.ok
                  THEN /\ rooms' = SetRoom(roomId, res.room)
                       /\ joined' = joined \cup {<<c, roomId>>}
                       /\ playerSockets' =
                             (c :> [roomId |-> roomId, playerId |-> res.player.id])
                                 @@ playerSockets
                       /\ emitted' =
                             EmitTo(c, "roomJoined", [playerId |-> res.player.id])
                             \o broadcastToRoom(res.room, sockets, "playerJoined",
                                                [playerId |-> res.player.id])
                       /\ timers' =
                             IF canStartGame(res.room)
                             THEN AddTimer(timers,
                                      Timer("autostart", roomId, NoBomb,
                                            now + AutoStartDelay))
                             ELSE timers
                  ELSE /\ emitted' = EmitTo(c, "error", [message |-> "Room is full"])
                       /\ UNCHANGED <<rooms, playerSockets, joined, timers>>

\* socket.on('joinRoom') when addPlayer throws.  server.js has no try around
\* the handler and no uncaughtException listener: the error leaves the
\* event loop and the process exits.  Nothing was mutated or sent before
\* the throw; with the process go its sockets, rooms and timers.
JoinRoomThrows(c, roomId, name) ==
    /\ c \in sockets
    /\ c \notin DOMAIN playerSockets
    /\ roomId \in gameRooms
    /\ addPlayerThrows(rooms[roomId])
    /\ sockets' = {}
    /\ rooms' = <<>>
    /\ gameRooms' = {}
    /\ playerSockets' = <<>>
    /\ joined' = {}
    /\ timers' = EmptyBag
    /\ emitted' = <<>>
    /\ UNCHANGED <<nextConn, now, transitioningPlayers>>

\* The auto-start callback joinRoom armed 2000 ms earlier.
AutoStartTimer(t) ==
    /\ Due(t)
    /\ t.kind = "autostart"
    /\ LET room == rooms[t.room]
           started == startGame(room, now)
       IN IF canStartGame(room)
          THEN /\ rooms' = SetRoom(t.room, started)
               /\ emitted' = broadcastToRoom(started, sockets, "gameStarted",
                                             [roomId |-> t.room])
               /\ timers' = AddTimer(AddTimer(DropTimer(timers, t),
                                Timer("sync", t.room, NoBomb, now + SyncPeriod)),
                                Timer("stateUpdate", t.room, NoBomb,
                                      now + StateUpdateDelay))
          ELSE /\ emitted' = <<>>
               /\ timers' = DropTimer(timers, t)
               /\ UNCHANGED rooms
    /\ UNCHANGED <<sockets, nextConn, gameRooms, playerSockets, joined, now,
                   transitioningPlayers>>

\* The callback 500 ms after the start: re-sends the snapshot taken then.
StateUpdateTimer(t) ==
    /\ Due(t)
    /\ t.kind = "stateUpdate"
    /\ timers' = DropTimer(timers, t)
    /\ emitted' = broadcastToRoom(rooms[t.room], sockets, "gameStateUpdate",
                                  [roomId |-> t.room, gameState |-> "playing"])
    /\ UNCHANGED <<sockets, nextConn, rooms, gameRooms, playerSockets, joined, now,
                   transitioningPlayers>>

\* The syncInterval callback of startGame: every 10 s while playing, and
\* clearInterval otherwise.
SyncTimer(t) ==
    /\ Due(t)
    /\ t.kind = "sync"
    /\ IF rooms[t.room].gameState = "playing"
       THEN /\ emitted' = broadcastToRoom(rooms[t.room], sockets, "gameStateUpdate",
                              [roomId |-> t.room, gameState |-> "playing"])
            /\ timers' = AddTimer(DropTimer(timers, t),
                                  Timer("sync", t.room, NoBomb, now + SyncPeriod))
       ELSE /\ emitted' = <<>>
            /\ timers' = DropTimer(timers, t)
    /\ UNCHANGED <<sockets, nextConn, rooms, gameRooms, playerSockets, joined, now,
                   transitioningPlayers>>


\* The common prefix without the `room.gameState !== 'playing'` test.
CanActAnyPhase(c) ==
    /\ c \in DOMAIN playerSockets
    /\ playerSockets[c].roomId \in gameRooms

\* The room a bound socket's intents go to: the handlers' common prefix
\* (`if (!playerInfo) return; ... if (!room || room.gameState !== 'playing')
\* return;`).
CanAct(c) ==
    /\ c \in DOMAIN playerSockets
    /\ playerSockets[c].roomId \in gameRooms
    /\ rooms[playerSockets[c].roomId].gameState = "playing"

\* socket.on('playerMove')
PlayerMove(c, x, y) ==
    /\ c \in sockets
    /\ UNCHANGED <<sockets, nextConn, gameRooms, playerSockets, joined, timers, now,
                   transitioningPlayers>>
    /\ IF ~CanAct(c)
       THEN emitted' = <<>> /\ UNCHANGED rooms
       ELSE LET playerInfo == playerSockets[c]
                res == updatePlayer(rooms[playerInfo.roomId], playerInfo.playerId, x, y)
            IN IF res.ok
               THEN /\ rooms' = SetRoom(playerInfo.roomId, res.room)
                    /\ emitted' = EmitToOthers(c, playerInfo.roomId, "playerMoved",
                          [playerId |-> playerInfo.playerId, x |-> x, y |-> y])
               ELSE emitted' = <<>> /\ UNCHANGED rooms

\* socket.on('placeBomb')
PlaceBomb(c, x, y) ==
    /\ c \in sockets
    /\ UNCHANGED <<sockets, nextConn, gameRooms, playerSockets, joined, now,
                   transitioningPlayers>>
    /\ IF ~CanAct(c)
       THEN emitted' = <<>> /\ UNCHANGED <<rooms, timers>>
       ELSE LET playerInfo == playerSockets[c]
                res == placeBomb(rooms[playerInfo.roomId], playerInfo.playerId, x, y, now)
            IN IF res.ok
               THEN /\ rooms' = SetRoom(playerInfo.roomId, res.room)
                    /\ timers' = AddTimer(timers,
                          Timer("fuse", playerInfo.roomId, res.bomb.id, now + FuseTime))
                    /\ emitted' = broadcastToRoom(res.room, sockets, "bombPlaced",
                          [bombId |-> res.bomb.id, playerId |-> playerInfo.playerId])
               ELSE emitted' = <<>> /\ UNCHANGED <<rooms, timers>>

\* socket.on('collectPowerUp')
CollectPowerUp(c, powerUpId) ==
    /\ c \in sockets
    /\ UNCHANGED <<sockets, nextConn, gameRooms, playerSockets, joined, timers, now,
                   transitioningPlayers>>
    /\ IF ~CanAct(c)
       THEN emitted' = <<>> /\ UNCHANGED rooms
       ELSE LET playerInfo == playerSockets[c]
                res == collectPowerUp(rooms[playerInfo.roomId],
                                      playerInfo.playerId, powerUpId)
            IN IF res.ok
               THEN /\ rooms' = SetRoom(playerInfo.roomId, res.room)
                    /\ emitted' = broadcastToRoom(res.room, sockets, "powerUpCollected",
                          [powerUpId |-> powerUpId, playerId |-> playerInfo.playerId])
               ELSE emitted' = <<>> /\ UNCHANGED rooms

\* socket.on('ping') with data {timestamp}
Ping(c, timestamp) ==
    /\ c \in sockets
    /\ emitted' = EmitTo(c, "pong", [timestamp |-> timestamp])
    /\ UNCHANGED <<sockets, nextConn, rooms, gameRooms, playerSockets, joined,
                   timers, now, transitioningPlayers>>

\* The function f without the key k.
Without(f, k) == [x \in DOMAIN f \ {k} |-> f[x]]

\* socket.on('disconnect'): the socket has left io.sockets.sockets and its
\* socket.io rooms when the handler runs.
Disconnect(c) ==
    /\ c \in sockets
    /\ sockets' = sockets \ {c}
    /\ joined' = {j \in joined : j[1] # c}
    /\ UNCHANGED <<nextConn, timers, now, transitioningPlayers>>
    /\ IF c \notin DOMAIN playerSockets
       THEN emitted' = <<>> /\ UNCHANGED <<rooms, gameRooms, playerSockets>>
       ELSE LET playerInfo == playerSockets[c]
            IN /\ playerSockets' = Without(playerSockets, c)
               /\ IF playerInfo.roomId \notin gameRooms
                  THEN emitted' = <<>> /\ UNCHANGED <<rooms, gameRooms>>
                  ELSE LET res == removePlayer(rooms[playerInfo.roomId], c)
                       IN IF res.playerId = 0
                          THEN emitted' = <<>> /\ UNCHANGED <<rooms, gameRooms>>
                          ELSE /\ rooms' = SetRoom(playerInfo.roomId, res.room)
                               /\ emitted' = broadcastToRoom(res.room, sockets',
                                     "playerLeft", [playerId |-> res.playerId])
                               /\ gameRooms' =
                                     IF /\ Len(res.room.players) = 0
                                        /\ res.room.gameState # "playing"
                                     THEN gameRooms \ {playerInfo.roomId}
                                     ELSE gameRooms

\* A fuse (3000 ms) or chain (50 ms) callback: this.explodeBomb(bombId) on
\* the room object the callback closed over, registered or not.  `choices`
\* are the random outcomes explored for each destroyed block.
ExplodeTimer(t, choices) ==
    /\ Due(t)
    /\ t.kind \in {"fuse", "chain"}
    /\ \E spawn \in [DestroyedBy(rooms[t.room], t.bomb) -> choices] :
          LET res == explodeBomb(rooms[t.room], t.bomb, now, sockets, spawn)
          IN /\ rooms' = SetRoom(t.room, res.room)
             /\ timers' = AddChainTimers(DropTimer(timers, t), t.room, res.chain, now)
             /\ emitted' = res.events
    /\ UNCHANGED <<sockets, nextConn, gameRooms, playerSockets, joined, now,
                   transitioningPlayers>>

\* Time passes to the earliest pending callback's due time; never past `cap`.
Advance(cap) ==
    /\ timers # EmptyBag
    /\ \E to \in {t.due : t \in BagToSet(timers)} :
          /\ to > now
          /\ to <= cap
          /\ \A t \in BagToSet(timers) : to <= t.due
          /\ now' = to
    /\ emitted' = <<>>
    /\ UNCHANGED <<sockets, nextConn, rooms, gameRooms, playerSockets, joined, timers,
                   transitioningPlayers>>

\* ------------------------------------------------ the README's listing
\* README.md carries a listing of server.js that differs from the shipped
\* file: it keeps transitioningPlayers (a record per player seated when the
\* match starts), defers the removal of a player whose socket drops with a
\* record, lets a join resume such a slot and sweeps the records every 30 s.
ReadmeBombPower == 5
GracePeriod == 30000
SweepPeriod == 30000
StaleAfter == 120000
PowerUpLifetime == 15000

SocketTimer(kind, roomId, socketId, due) ==
    [kind |-> kind, room |-> roomId, bomb |-> NoBomb, socket |-> socketId, due |-> due]

\* The listing's addPlayer: as the shipped one but for bombPower.
ReadmeAddPlayer(room, socketId, name) ==
    LET res == addPlayer(room, socketId, name)
        player == [res.player EXCEPT !.bombPower = ReadmeBombPower]
    IN IF res.ok
       THEN [ ok |-> TRUE,
              room |-> [room EXCEPT !.players = MapSet(@, player.id, player)],
              player |-> player ]
       ELSE res

\* The loop of the listing's startGame: one transitioningPlayers.set per
\* player, in Map order.
RECURSIVE MarkTransitioning(_, _, _, _)
MarkTransitioning(tp, players, roomId, t) ==
    IF players = <<>> THEN tp
    ELSE LET player == Head(players)
         IN MarkTransitioning(
                MapSet(tp, player.socket,
                       [ id |-> player.socket, roomId |-> roomId,
                         playerId |-> player.id, playerName |-> player.name,
                         transitionStart |-> t ]),
                Tail(players), roomId, t)

\* GameRoom.rejoinTransitioningPlayer: [ok, room, player]; ok = FALSE is
\* `return null`.
rejoinTransitioningPlayer(room, socketId, oldPlayerData) ==
    LET hits == {i \in DOMAIN room.players :
                    /\ room.players[i].name = oldPlayerData.playerName
                    /\ room.players[i].id = oldPlayerData.playerId}
    IN IF hits = {} THEN [ok |-> FALSE, room |-> room, player |-> <<>>]
       ELSE LET i == CHOOSE j \in hits : \A k \in hits : j <= k
                player == [room.players[i] EXCEPT !.socket = socketId]
            IN [ ok |-> TRUE,
                 room |-> [room EXCEPT !.players[i] = player],
                 player |-> player ]

\* GameRoom.cleanupOldPowerUps
cleanupOldPowerUps(room, t) ==
    [room EXCEPT !.powerUps =
        SelectSeq(@, LAMBDA pu : ~(t - pu.spawnedAt > PowerUpLifetime))]

\* The listing's socket.on('createRoom').
ReadmeCreateRoom(c, maxPlayers, name, chosen) ==
    /\ c \in sockets
    /\ Len(rooms) < MaxRooms
    /\ LET roomId == Len(rooms) + 1
           room == NewGameRoom(roomId, OrElse(maxPlayers, DefaultMaxPlayers), chosen)
           res == ReadmeAddPlayer(room, c, name)
       IN /\ rooms' = Append(rooms, res.room)
          /\ gameRooms' = gameRooms \cup {roomId}
          /\ IF res.ok
             THEN /\ joined' = joined \cup {<<c, roomId>>}
                  /\ playerSockets' =
                        (c :> [roomId |-> roomId, playerId |-> res.player.id])
                            @@ playerSockets
                  /\ emitted' = EmitTo(c, "roomCreated",
                        [roomId |-> roomId, playerId |-> res.player.id])
             ELSE /\ emitted' = <<>>
                  /\ UNCHANGED <<joined, playerSockets>>
    /\ UNCHANGED <<sockets, nextConn, timers, now, transitioningPlayers>>

\* The record the listing's joinRoom picks: the first entry of
\* transitioningPlayers for the room whose name or slot equals the one
\* sent (name "" and playerId 0 stand for absent fields).  0 if none.
FindTransitioning(roomId, name, playerId) ==
    LET hits == {i \in DOMAIN transitioningPlayers :
                    /\ transitioningPlayers[i].roomId = roomId
                    /\ \/ name # "" /\ transitioningPlayers[i].playerName = name
                       \/ playerId # 0 /\ transitioningPlayers[i].playerId = playerId}
    IN IF hits = {} THEN 0 ELSE CHOOSE i \in hits : \A k \in hits : i <= k

\* The events of a join that announces the player to the room whether or
\* not it resumes a slot.
ReadmeJoinEventsAnnounce(c, room, playerId, isReconnecting) ==
    EmitTo(c, "roomJoined",
           [playerId |-> playerId, isReconnecting |-> isReconnecting])
    \o broadcastToRoom(room, sockets, "playerJoined", [playerId |-> playerId])
    \o (IF room.gameState = "playing"
        THEN broadcastToRoom(room, sockets, "gameStateUpdate",
                             [roomId |-> room.roomId, gameState |-> room.gameState])
        ELSE <<>>)

\* The events of a successful join: the reply, then the announcement of a
\* new player or the start event for a resumed one, then the snapshot for
\* the whole room when the match runs.
ReadmeJoinEvents(c, room, playerId, isReconnecting) ==
    LET snapshot == [roomId |-> room.roomId, gameState |-> room.gameState]
    IN EmitTo(c, "roomJoined",
              [playerId |-> playerId, isReconnecting |-> isReconnecting])
       \o (IF ~isReconnecting
           THEN broadcastToRoom(room, sockets, "playerJoined",
                                [playerId |-> playerId])
           ELSE IF room.gameState = "playing"
           THEN EmitTo(c, "gameStarted", snapshot)
           ELSE <<>>)
       \o (IF room.gameState = "playing"
           THEN broadcastToRoom(room, sockets, "gameStateUpdate", snapshot)
           ELSE <<>>)

\* The listing's socket.on('joinRoom') with data {roomId, name, playerId}.
\* A join that would seat a fifth player throws in addPlayer and ends in
\* the handler's catch.
ReadmeJoinRoom(c, roomId, name, playerId) ==
    /\ c \in sockets
    /\ UNCHANGED <<sockets, nextConn, gameRooms, now>>
    /\ IF roomId \notin gameRooms
       THEN /\ emitted' = EmitTo(c, "error", [message |-> "Room not found"])
            /\ UNCHANGED <<rooms, playerSockets, joined, timers, transitioningPlayers>>
       ELSE LET room == rooms[roomId]
                found == FindTransitioning(roomId, name, playerId)
                rejoin == IF found = 0
                          THEN [ok |-> FALSE, room |-> room, player |-> <<>>]
                          ELSE rejoinTransitioningPlayer(room, c,
                                                         transitioningPlayers[found])
                isReconnecting == rejoin.ok
                throws == /\ ~isReconnecting
                          /\ Len(room.players) < room.maxPlayers
                          /\ Len(room.players) >= Len(SpawnPositions)
                res == IF isReconnecting THEN rejoin
                       ELSE IF throws THEN [ok |-> FALSE, room |-> room, player |-> <<>>]
                       ELSE ReadmeAddPlayer(room, c, name)
            IN IF throws
               THEN /\ emitted' = EmitTo(c, "error", [message |-> "Failed to join room"])
                    /\ UNCHANGED <<rooms, playerSockets, joined, timers,
                                   transitioningPlayers>>
               ELSE IF ~res.ok
               THEN /\ emitted' = EmitTo(c, "error", [message |-> "Room is full"])
                    /\ UNCHANGED <<rooms, playerSockets, joined, timers,
                                   transitioningPlayers>>
               ELSE /\ rooms' = SetRoom(roomId, res.room)
                    /\ transitioningPlayers' =
                          IF isReconnecting
                          THEN MapDelete(transitioningPlayers,
                                         transitioningPlayers[found].id)
                          ELSE transitioningPlayers
                    /\ joined' = joined \cup {<<c, roomId>>}
                    /\ playerSockets' =
                          (c :> [roomId |-> roomId, playerId |-> res.player.id])
                              @@ playerSockets
                    /\ timers' =
                          IF ~isReconnecting /\ canStartGame(res.room)
                          THEN AddTimer(timers,
                                   Timer("autostart", roomId, NoBomb,
                                         now + AutoStartDelay))
                          ELSE timers
                    /\ emitted' = ReadmeJoinEvents(c, res.room, res.player.id,
                                                   isReconnecting)

\* The listing's auto-start callback: startGame, which also registers a
\* transition record for every player, then the gameStarted broadcast.
ReadmeAutoStartTimer(t) ==
    /\ Due(t)
    /\ t.kind = "autostart"
    /\ timers' = DropTimer(timers, t)
    /\ LET room == rooms[t.room]
           started == startGame(room, now)
       IN IF canStartGame(room)
          THEN /\ rooms' = SetRoom(t.room, started)
               /\ transitioningPlayers' =
                     MarkTransitioning(transitioningPlayers, room.players,
                                       t.room, now)
               /\ emitted' = broadcastToRoom(started, sockets, "gameStarted",
                                             [roomId |-> t.room])
          ELSE /\ emitted' = <<>>
               /\ UNCHANGED <<rooms, transitioningPlayers>>
    /\ UNCHANGED <<sockets, nextConn, gameRooms, playerSockets, joined, now>>

\* The listing's socket.on('disconnect'): with a transition record the
\* removal is left to a callback 30 s later.
ReadmeDisconnect(c) ==
    /\ c \in sockets
    /\ sockets' = sockets \ {c}
    /\ joined' = {j \in joined : j[1] # c}
    /\ UNCHANGED <<nextConn, now, transitioningPlayers>>
    /\ IF c \notin DOMAIN playerSockets
       THEN emitted' = <<>> /\ UNCHANGED <<rooms, gameRooms, playerSockets, timers>>
       ELSE LET playerInfo == playerSockets[c]
            IN /\ playerSockets' = Without(playerSockets, c)
               /\ IF playerInfo.roomId \notin gameRooms
                  THEN emitted' = <<>> /\ UNCHANGED <<rooms, gameRooms, timers>>
                  ELSE IF MapHas(transitioningPlayers, c)
                  THEN /\ timers' = AddTimer(timers,
                              SocketTimer("grace", playerInfo.roomId, c,
                                          now + GracePeriod))
                       /\ emitted' = <<>>
                       /\ UNCHANGED <<rooms, gameRooms>>
                  ELSE LET res == removePlayer(rooms[playerInfo.roomId], c)
                       IN /\ UNCHANGED timers
                          /\ IF res.playerId = 0
                             THEN emitted' = <<>> /\ UNCHANGED <<rooms, gameRooms>>
                             ELSE /\ rooms' = SetRoom(playerInfo.roomId, res.room)
                                  /\ emitted' = broadcastToRoom(res.room, sockets',
                                        "playerLeft", [playerId |-> res.playerId])
                                  /\ gameRooms' =
                                        IF Len(res.room.players) = 0
                                        THEN gameRooms \ {playerInfo.roomId}
                                        ELSE gameRooms

\* The delayed cleanup callback of the listing's disconnect handler.
GraceTimer(t) ==
    /\ Due(t)
    /\ t.kind = "grace"
    /\ timers' = DropTimer(timers, t)
    /\ UNCHANGED <<sockets, nextConn, playerSockets, joined, now>>
    /\ IF ~MapHas(transitioningPlayers, t.socket)
       THEN emitted' = <<>> /\ UNCHANGED <<rooms, gameRooms, transitioningPlayers>>
       ELSE /\ transitioningPlayers' = MapDelete(transitioningPlayers, t.socket)
            /\ IF t.room \notin gameRooms
               THEN emitted' = <<>> /\ UNCHANGED <<rooms, gameRooms>>
               ELSE LET res == removePlayer(rooms[t.room], t.socket)
                    IN IF res.playerId = 0
                       THEN emitted' = <<>> /\ UNCHANGED <<rooms, gameRooms>>
                       ELSE /\ rooms' = SetRoom(t.room, res.room)
                            /\ emitted' = broadcastToRoom(res.room, sockets,
                                  "playerLeft", [playerId |-> res.playerId])
                            /\ gameRooms' =
                                  IF Len(res.room.players) = 0
                                  THEN gameRooms \ {t.room}
                                  ELSE gameRooms

\* The listing's explodeBomb: as explodeBomb, with the owner's live-bomb
\* count kept at 0 or above (`Math.max(0, owner.bombCount - 1)`).
ReadmeExplodeBomb(room, bombId, t, socks, spawn) ==
    LET res == explodeBomb(room, bombId, t, socks, spawn)
    IN [res EXCEPT !.room.players =
           [i \in DOMAIN @ |-> [@[i] EXCEPT !.bombCount = Max(0, @)]]]

\* A fuse or chain callback of the listing.
ReadmeExplodeTimer(t, choices) ==
    /\ Due(t)
    /\ t.kind \in {"fuse", "chain"}
    /\ \E spawn \in [DestroyedBy(rooms[t.room], t.bomb) -> choices] :
          LET res == ReadmeExplodeBomb(rooms[t.room], t.bomb, now, sockets, spawn)
          IN /\ rooms' = SetRoom(t.room, res.room)
             /\ timers' = AddChainTimers(DropTimer(timers, t), t.room, res.chain, now)
             /\ emitted' = res.events
    /\ UNCHANGED <<sockets, nextConn, gameRooms, playerSockets, joined, now,
                   transitioningPlayers>>

\* The listing's 30 s interval: power-ups older than 15 s leave the
\* registered rooms, transition records older than 120 s are dropped.
SweepTimer(t) ==
    /\ Due(t)
    /\ t.kind = "sweep"
    /\ timers' = AddTimer(DropTimer(timers, t),
                          SocketTimer("sweep", 0, 0, now + SweepPeriod))
    /\ rooms' = [r \in DOMAIN rooms |->
                    IF r \in gameRooms THEN cleanupOldPowerUps(rooms[r], now)
                    ELSE rooms[r]]
    /\ transitioningPlayers' =
          SelectSeq(transitioningPlayers,
                    LAMBDA td : ~(now - td.transitionStart > StaleAfter))
    /\ emitted' = <<>>
    /\ UNCHANGED <<sockets, nextConn, gameRooms, playerSockets, joined, now>>

\* Time passes to the earliest pending callback or to the next multiple of
\* `step`, whichever comes first; never past `cap`.
Tick(step, cap) ==
    /\ LET dues == {t.due : t \in BagToSet(timers)} \cup {((now \div step) + 1) * step}
           to == CHOOSE d \in dues : \A e \in dues : d <= e
       IN to <= cap /\ now' = to
    /\ emitted' = <<>>
    /\ UNCHANGED <<sockets, nextConn, rooms, gameRooms, playerSockets, joined, timers,
                   transitioningPlayers>>

\* ------------------------------------------------------------ inputs
\* The layouts explored: the first MaxLayoutCells candidate cells of the
\* scan, each present or not (every other cell came out empty).
Layouts ==
    LET cand == SelectSeq(ScanCells, LAMBDA c : ~TooClose(c.x, c.y))
    IN SUBSET {cand[i] : i \in 1..MaxLayoutCells}

NameInputs == {""}

\* Client coordinates: off the grid, so that clamping and snapping act.
MoveInputs == {<<100, 70>>}

BombInputs == {<<60, 70>>, <<100, 60>>}

UnknownPowerUp == <<0, 0, 0>>

PowerUpInputs(c) ==
    {UnknownPowerUp} \cup
        (IF c \in DOMAIN playerSockets /\ playerSockets[c].roomId \in gameRooms
         THEN MapKeys(rooms[playerSockets[c].roomId].powerUps)
         ELSE {})

\* ------------------------------------------------------- specifications
\* Spec: the registry and the lobby.  Up to MaxRooms rooms are created,
\* joined and left in any order until the matches have started
\* (StartHorizon ms: the auto-start and the snapshot that follows it).
StartHorizon == AutoStartDelay + StateUpdateDelay

Next ==
    \/ Connect
    \/ \E c \in Conns, mp \in {0, 2}, name \in NameInputs :
          CreateRoom(c, mp, name, {})
    \/ \E c \in Conns, roomId \in RoomIds, name \in NameInputs : JoinRoom(c, roomId, name)
    \/ \E c \in Conns, xy \in MoveInputs : PlayerMove(c, xy[1], xy[2])
    \/ \E c \in Conns : Disconnect(c)
    \/ \E t \in BagToSet(timers) : AutoStartTimer(t)
    \/ \E t \in BagToSet(timers) : StateUpdateTimer(t)
    \/ Advance(StartHorizon)

Spec == Init /\ [][Next]_vars

\* SpecPlay: one match.  Socket 1 creates a room with the default size,
\* the others join before the clock moves, and the match is played for
\* MaxTime ms: bombs are placed on the full second, socket 2 is the one
\* that moves and socket 3 the one that may drop out.
NextPlay ==
    \/ now = 0 /\ Connect
    \/ \E chosen \in Layouts : Len(rooms) < 1 /\ CreateRoom(1, 0, "", chosen)
    \/ \E c \in Conns : now = 0 /\ JoinRoom(c, 1, "")
    \/ \E xy \in MoveInputs : PlayerMove(2, xy[1], xy[2])
    \/ \E c \in Conns, xy \in BombInputs : now % 1000 = 0 /\ now + FuseTime <= MaxTime /\ PlaceBomb(c, xy[1], xy[2])
    \/ \E c \in Conns : \E powerUpId \in PowerUpInputs(c) : CollectPowerUp(c, powerUpId)
    \/ now >= AutoStartDelay /\ Disconnect(3)
    \/ \E t \in BagToSet(timers) : AutoStartTimer(t)
    \/ \E t \in BagToSet(timers) : StateUpdateTimer(t)
    \/ \E t \in BagToSet(timers) : ExplodeTimer(t, {"none", "power"})
    \/ Advance(MaxTime)

SpecPlay == Init /\ [][NextPlay]_vars

\* SpecChain: two players and their bombs.  Socket 1 creates the room,
\* socket 2 joins, and after the start both place bombs on the two cells of
\* BombInputs at any instant the clock stops at (the start, the snapshot
\* 500 ms later, the detonations), as long as the fuse ends by ChainMaxTime.
\* The cells are one grid step apart, so each blast reaches the other bomb.
ChainMaxTime == 6000

NextChain ==
    \/ now = 0 /\ nextConn <= 2 /\ Connect
    \/ Len(rooms) < 1 /\ CreateRoom(1, 0, "", {})
    \/ now = 0 /\ JoinRoom(2, 1, "")
    \/ \E c \in 1..2, xy \in BombInputs :
          now + FuseTime <= ChainMaxTime /\ PlaceBomb(c, xy[1], xy[2])
    \/ \E t \in BagToSet(timers) : AutoStartTimer(t)
    \/ \E t \in BagToSet(timers) : StateUpdateTimer(t)
    \/ \E t \in BagToSet(timers) : ExplodeTimer(t, {"none"})
    \/ Advance(ChainMaxTime)

SpecChain == Init /\ [][NextChain]_vars

\* SpecChainFair: SpecChain on an event loop that runs every callback that
\* is due and lets time pass to the next pending callback.
FairChain ==
    /\ WF_vars(\E t \in BagToSet(timers) : AutoStartTimer(t))
    /\ WF_vars(\E t \in BagToSet(timers) : StateUpdateTimer(t))
    /\ WF_vars(\E t \in BagToSet(timers) : ExplodeTimer(t, {"none"}))
    /\ WF_vars(Advance(ChainMaxTime))

SpecChainFair == Init /\ [][NextChain]_vars /\ FairChain

\* SpecItems: one match of three players with power-ups.  The layout has
\* its block, which the first blast next to it destroys; the block leaves a
\* `bombs` or a `health` power-up, which socket 2, standing between the two
\* bomb cells, may collect.  Sockets 2 and 3 place bombs, on full seconds.
ItemChoices == {"bombs", "health"}

NextItems ==
    \/ now = 0 /\ Connect
    \/ \E chosen \in Layouts \ {{}} : Len(rooms) < 1 /\ CreateRoom(1, 0, "", chosen)
    \/ \E c \in Conns : now = 0 /\ JoinRoom(c, 1, "")
    \/ \E xy \in MoveInputs : PlayerMove(2, xy[1], xy[2])
    \/ \E c \in 2..3, xy \in BombInputs :
          now % 1000 = 0 /\ now + FuseTime <= MaxTime /\ PlaceBomb(c, xy[1], xy[2])
    \/ \E powerUpId \in PowerUpInputs(2) : CollectPowerUp(2, powerUpId)
    \/ \E t \in BagToSet(timers) : AutoStartTimer(t)
    \/ \E t \in BagToSet(timers) : StateUpdateTimer(t)
    \/ \E t \in BagToSet(timers) : ExplodeTimer(t, ItemChoices)
    \/ Advance(MaxTime)

SpecItems == Init /\ [][NextItems]_vars

\* SpecMove: two players of a started match moving.  The targets include
\* zero, negative and beyond-the-arena coordinates.
WideMoveInputs == {<<100, 70>>, <<0, 70>>, <<-5, 800>>, <<2000, 0>>}

NextMove ==
    \/ now = 0 /\ nextConn <= 2 /\ Connect
    \/ Len(rooms) < 1 /\ CreateRoom(1, 0, "", {})
    \/ now = 0 /\ JoinRoom(2, 1, "")
    \/ \E c \in 1..2, xy \in WideMoveInputs : PlayerMove(c, xy[1], xy[2])
    \/ \E t \in BagToSet(timers) : AutoStartTimer(t)
    \/ \E t \in BagToSet(timers) : StateUpdateTimer(t)
    \/ Advance(StartHorizon)

SpecMove == Init /\ [][NextMove]_vars

\* SpecBlast: two players placing bombs anywhere.  The placements include
\* client coordinates that snap to cells on and beyond the arena's edge;
\* the layout has its block or not, and a destroyed block may leave a
\* `power` power-up, so that later bombs have power 4.  Bombs are placed on
\* full seconds until the fuses would pass BlastMaxTime.
BlastMaxTime == 8000

WideBombInputs == {<<60, 70>>, <<100, 60>>, <<10, 10>>, <<1000, 130>>}

NextBlast ==
    \/ now = 0 /\ nextConn <= 2 /\ Connect
    \/ \E chosen \in Layouts : Len(rooms) < 1 /\ CreateRoom(1, 0, "", chosen)
    \/ now = 0 /\ JoinRoom(2, 1, "")
    \/ \E c \in 1..2, xy \in WideBombInputs :
          now % 1000 = 0 /\ now + FuseTime <= BlastMaxTime /\ PlaceBomb(c, xy[1], xy[2])
    \/ \E c \in 1..2 : \E powerUpId \in PowerUpInputs(c) : CollectPowerUp(c, powerUpId)
    \/ \E t \in BagToSet(timers) : AutoStartTimer(t)
    \/ \E t \in BagToSet(timers) : StateUpdateTimer(t)
    \/ \E t \in BagToSet(timers) : ExplodeTimer(t, {"none", "power"})
    \/ Advance(BlastMaxTime)

SpecBlast == Init /\ [][NextBlast]_vars

\* SpecReadme: the README's listing.  One room: socket 1 creates it and
\* socket 2 joins before the clock moves, so that the match starts at
\* AutoStartDelay; socket 3 joins at any later time, with or without the
\* name and slot of a seated player; every socket may drop at any time.
\* The sweep runs from time 0 and the clock stops at ReadmeMaxTime.
ReadmeMaxTime == 180000
TickStep == 45000
ReadmeNames == {"", "Bob"}
RejoinInputs == {<<"", 0>>, <<"Bob", 2>>}

InitReadme ==
    /\ sockets = {}
    /\ nextConn = 1
    /\ rooms = <<>>
    /\ gameRooms = {}
    /\ playerSockets = <<>>
    /\ joined = {}
    /\ timers = SetToBag({SocketTimer("sweep", 0, 0, SweepPeriod)})
    /\ now = 0
    /\ emitted = <<>>
    /\ transitioningPlayers = <<>>

NextReadme ==
    \/ (nextConn <= 2 => now = 0) /\ Connect
    \/ \E name \in ReadmeNames : now = 0 /\ Len(rooms) < 1 /\ ReadmeCreateRoom(1, 0, name, {})
    \/ \E name \in ReadmeNames : now = 0 /\ 2 \notin DOMAIN playerSockets /\ ReadmeJoinRoom(2, 1, name, 0)
    \/ \E in \in RejoinInputs : 3 \notin DOMAIN playerSockets /\ ReadmeJoinRoom(3, 1, in[1], in[2])
    \/ \E c \in Conns : ReadmeDisconnect(c)
    \/ \E t \in BagToSet(timers) : ReadmeAutoStartTimer(t)
    \/ \E t \in BagToSet(timers) : GraceTimer(t)
    \/ \E t \in BagToSet(timers) : SweepTimer(t)
    \/ Tick(TickStep, ReadmeMaxTime)

SpecReadme == InitReadme /\ [][NextReadme]_vars

\* SpecSweep: the README listing with power-ups and the 30 s sweep.  Two
\* players; socket 2 bombs the cell next to the layout's block at the
\* start or on a multiple of SweepTickStep, the destroyed block may leave a
\* power-up, which may be collected, and the players may drop out (their
\* removal comes 30 s later).  The clock stops at every pending callback and
\* at every multiple of SweepTickStep up to SweepMaxTime.
SweepMaxTime == 75000
SweepTickStep == 12000

NextSweep ==
    \/ now = 0 /\ nextConn <= 2 /\ Connect
    \/ \E chosen \in Layouts \ {{}} :
          now = 0 /\ Len(rooms) < 1 /\ ReadmeCreateRoom(1, 0, "", chosen)
    \/ now = 0 /\ 2 \notin DOMAIN playerSockets /\ ReadmeJoinRoom(2, 1, "", 0)
    \/ /\ now = AutoStartDelay \/ now % SweepTickStep = 0
       /\ now < SweepPeriod
       /\ PlaceBomb(2, 100, 60)
    \/ \E powerUpId \in PowerUpInputs(2) : CollectPowerUp(2, powerUpId)
    \/ \E c \in 1..2 : now >= SweepPeriod /\ ReadmeDisconnect(c)
    \/ \E t \in BagToSet(timers) : ReadmeAutoStartTimer(t)
    \/ \E t \in BagToSet(timers) : ReadmeExplodeTimer(t, {"none", "speed"})
    \/ \E t \in BagToSet(timers) : GraceTimer(t)
    \/ \E t \in BagToSet(timers) : SweepTimer(t)
    \/ Tick(SweepTickStep, SweepMaxTime)

SpecSweep == InitReadme /\ [][NextSweep]_vars

\* server.js over a long match: its only repeating timer is the 10 s sync
\* of a playing room; power-ups come from the blocks player 2's bombs
\* destroy.
ExpiryMaxTime == 52000

NextExpiry ==
    \/ now = 0 /\ nextConn <= 2 /\ Connect
    \/ \E chosen \in Layouts \ {{}} :
          now = 0 /\ Len(rooms) < 1 /\ CreateRoom(1, 0, "", chosen)
    \/ now = 0 /\ 2 \notin DOMAIN playerSockets /\ JoinRoom(2, 1, "")
    \/ /\ now % SyncPeriod = AutoStartDelay
       /\ now < 3 * SyncPeriod
       /\ PlaceBomb(2, 100, 60)
    \/ \E powerUpId \in PowerUpInputs(2) : CollectPowerUp(2, powerUpId)
    \/ \E t \in BagToSet(timers) : AutoStartTimer(t)
    \/ \E t \in BagToSet(timers) : StateUpdateTimer(t)
    \/ \E t \in BagToSet(timers) : SyncTimer(t)
    \/ \E t \in BagToSet(timers) : ExplodeTimer(t, {"none", "speed"})
    \/ Advance(ExpiryMaxTime)

SpecExpiry == Init /\ [][NextExpiry]_vars

\* SpecLeave: a room and the ways it empties.  The creator asks for the
\* default size or for a size below one, a second socket joins, both may
\* place bombs once the match runs, and either may drop at any time; a
\* third socket may join at any time.
LeaveMaxTime == 6000

NextLeave ==
    \/ (now = 0 \/ nextConn = 3) /\ Connect
    \/ \E mp \in {0, -1} : Len(rooms) < 1 /\ CreateRoom(1, mp, "", {})
    \/ \E c \in 2..3 : (c = 2 => now = 0) /\ JoinRoom(c, 1, "")
    \/ \E c \in 1..2, xy \in BombInputs :
          now + FuseTime <= LeaveMaxTime /\ PlaceBomb(c, xy[1], xy[2])
    \/ \E c \in 1..2 : Disconnect(c)
    \/ \E t \in BagToSet(timers) : AutoStartTimer(t)
    \/ \E t \in BagToSet(timers) : StateUpdateTimer(t)
    \/ \E t \in BagToSet(timers) : ExplodeTimer(t, {"none"})
    \/ Advance(LeaveMaxTime)

SpecLeave == Init /\ [][NextLeave]_vars

\* SpecBig: one room of the default size or of five, and five sockets
\* that join it one after the other; any of them may drop.
BigConns == 5

NextBig ==
    \/ now = 0 /\ ConnectWithin(BigConns)
    \/ \E mp \in {0, 5} : Len(rooms) < 1 /\ CreateRoom(1, mp, "", {})
    \/ \E c \in 2..BigConns : JoinRoom(c, 1, "")
    \/ \E c \in 2..BigConns : JoinRoomThrows(c, 1, "")
    \/ \E c \in 1..BigConns : Disconnect(c)
    \/ \E t \in BagToSet(timers) : AutoStartTimer(t)
    \/ \E t \in BagToSet(timers) : StateUpdateTimer(t)
    \/ Advance(StartHorizon)

SpecBig == Init /\ [][NextBig]_vars

\* SpecLeaveFair: SpecLeave on an event loop that runs every callback that
\* is due and lets time pass to the next pending callback.  Nothing obliges
\* a client to send anything.
FairLeave ==
    /\ WF_vars(\E t \in BagToSet(timers) : AutoStartTimer(t))
    /\ WF_vars(\E t \in BagToSet(timers) : StateUpdateTimer(t))
    /\ WF_vars(\E t \in BagToSet(timers) : ExplodeTimer(t, {"none"}))
    /\ WF_vars(Advance(LeaveMaxTime))

SpecLeaveFair == Init /\ [][NextLeave]_vars /\ FairLeave

\* ---------------------------------------------------------------- claims
\* The events of kind `ev` the step just taken sent.
Sent(ev) == {i \in DOMAIN emitted : emitted[i].event = ev}

\* C1: a successful join never returns the number of a slot that is
\* occupied in the room at the time of the join (the weakest part of "slot
\* numbers are never reused": every roomJoined reply names a slot that was
\* free in the room the socket got bound to).
C1_JoinTakesFreeSlot ==
    [][\A i \in DOMAIN emitted' :
          emitted'[i].event = "roomJoined" =>
              ~MapHas(rooms[playerSockets'[emitted'[i].to].roomId].players,
                      emitted'[i].data.playerId)]_vars

\* The delayed cleanup of socket c in room r is pending: c dropped with a
\* transition record and its grace window has not ended.
GracePending(c, r) ==
    \E t \in BagToSet(timers) : t.kind = "grace" /\ t.socket = c /\ t.room = r

\* C2: a connection seated at the start has dropped and its grace window
\* is open; a new connection joins the room with that player's name and
\* slot.  Then the reply is roomJoined with that slot and isReconnecting,
\* the number of occupied slots is as before, the slot is bound to the new
\* connection, the transition record is gone and no playerJoined is sent.
C2_ResumeOnRejoin ==
    [][\A c \in Conns : \A i \in DOMAIN transitioningPlayers :
          LET td == transitioningPlayers[i]
              r == td.roomId
          IN (/\ td.id \notin sockets
              /\ GracePending(td.id, r)
              /\ r \in gameRooms
              /\ MapHas(rooms[r].players, td.playerId)
              /\ MapGet(rooms[r].players, td.playerId).socket = td.id
              /\ MapGet(rooms[r].players, td.playerId).name = td.playerName
              /\ c \notin DOMAIN playerSockets
              /\ ReadmeJoinRoom(c, r, td.playerName, td.playerId)) =>
                 /\ \E e \in DOMAIN emitted' :
                       emitted'[e] = Event(c, "roomJoined",
                           [playerId |-> td.playerId, isReconnecting |-> TRUE])
                 /\ Len(rooms'[r].players) = Len(rooms[r].players)
                 /\ MapHas(rooms'[r].players, td.playerId)
                 /\ MapGet(rooms'[r].players, td.playerId).socket = c
                 /\ ~MapHas(transitioningPlayers', td.id)
                 /\ \A e \in DOMAIN emitted' : emitted'[e].event # "playerJoined"]_vars

\* C3: the disconnect handler of a socket that has a transition record
\* changes neither the room nor the registry; and while the delayed
\* cleanup of a dropped socket is pending its player record stays as it is
\* unless the step is a rejoin (the record is rebound to another socket and
\* the reply says isReconnecting) or that socket's cleanup callback.
C3_DeferredLeave ==
    [][/\ \A c \in Conns :
             (MapHas(transitioningPlayers, c) /\ ReadmeDisconnect(c)) =>
                 rooms' = rooms /\ gameRooms' = gameRooms
       /\ \A r \in DOMAIN rooms : \A i \in DOMAIN rooms[r].players :
             LET p == rooms[r].players[i]
                 after == rooms'[r].players
             IN (p.socket \notin sockets /\ GracePending(p.socket, r)) =>
                    \/ /\ MapHas(after, p.id)
                       /\ MapGet(after, p.id) = p
                       /\ r \in gameRooms => r \in gameRooms'
                    \/ /\ MapHas(after, p.id)
                       /\ MapGet(after, p.id) =
                              [p EXCEPT !.socket = MapGet(after, p.id).socket]
                       /\ \E e \in DOMAIN emitted' :
                             /\ emitted'[e].event = "roomJoined"
                             /\ emitted'[e].data =
                                   [playerId |-> p.id, isReconnecting |-> TRUE]
                    \/ \E t \in BagToSet(timers) :
                          /\ t.kind = "grace" /\ t.socket = p.socket /\ t.room = r
                          /\ GraceTimer(t)]_vars

\* C4: when the delayed cleanup callback of a dropped socket runs and the
\* socket's player is still in the room (nobody resumed the slot), the
\* player is removed, playerLeft is broadcast and the room leaves the
\* registry if it is left empty.
C4_GraceExpiryRemoves ==
    [][\A t \in BagToSet(timers) :
          (/\ t.kind = "grace"
           /\ GraceTimer(t)
           /\ t.room \in gameRooms
           /\ \E i \in DOMAIN rooms[t.room].players :
                 rooms[t.room].players[i].socket = t.socket) =>
              LET gone == removePlayer(rooms[t.room], t.socket)
              IN /\ rooms'[t.room].players = gone.room.players
                 /\ emitted' = broadcastToRoom(gone.room, sockets, "playerLeft",
                                               [playerId |-> gone.playerId])
                 /\ Len(gone.room.players) = 0 => t.room \notin gameRooms']_vars

\* The room ids of the GameRoom objects that exist.
Rooms == DOMAIN rooms

\* The step just taken ran explodeBomb to its end on room r: a live bomb
\* left the bomb table (nothing else deletes from it).
Detonated(r) == MapKeys(rooms[r].bombs) \ MapKeys(rooms'[r].bombs) # {}

Alive(room) == SelectSeq(room.players, LAMBDA p : p.isAlive)

\* C5: a room's phase only moves forward: waiting stays or becomes
\* playing, playing stays or becomes finished, finished stays finished.
C5_PhaseForward ==
    [][\A r \in Rooms :
          LET old == rooms[r].gameState
              new == rooms'[r].gameState
          IN \/ new = old
             \/ old = "waiting" /\ new = "playing"
             \/ old = "playing" /\ new = "finished"]_vars

\* A room that went through all three phases while a later auto-start
\* callback, a leave and detonations interleaved with it.
C5_Witness ==
    \E r \in Rooms : /\ rooms[r].gameState = "finished"
                     /\ rooms[r].gameStartTime = AutoStartDelay
                     /\ Sent("gameOver") # {}

\* C6: once a room is finished no step changes its player table, its bomb
\* table, its power-up table or its destructible blocks.
C6_FinishedIsFrozen ==
    [][\A r \in Rooms :
          rooms[r].gameState = "finished" =>
              /\ rooms'[r].players = rooms[r].players
              /\ rooms'[r].bombs = rooms[r].bombs
              /\ rooms'[r].powerUps = rooms[r].powerUps
              /\ rooms'[r].destructibleBlocks = rooms[r].destructibleBlocks]_vars

\* C7: after a detonation, one player alive means finished and a gameOver
\* naming that slot, none alive means finished and gameOver with winner
\* null (0), two or more alive means the phase is as before and no
\* gameOver is sent.  gameOver goes to every player with a connected socket.
C7_WinCheck ==
    [][\A r \in Rooms :
          Detonated(r) =>
              LET room == rooms'[r]
                  alive == Alive(room)
                  over == {emitted'[i] : i \in {j \in DOMAIN emitted' :
                                                emitted'[j].event = "gameOver"}}
                  sent(w) == {Event(room.players[i].socket, "gameOver", [winner |-> w]) :
                                 i \in {j \in DOMAIN room.players :
                                           room.players[j].socket \in sockets}}
              IN /\ Len(alive) = 1 =>
                        room.gameState = "finished" /\ over = sent(alive[1].id)
                 /\ Len(alive) = 0 =>
                        room.gameState = "finished" /\ over = sent(0)
                 /\ Len(alive) >= 2 =>
                        room.gameState = rooms[r].gameState /\ over = {}]_vars

\* A draw: the last two players of a room died in the same blast.
C7_Witness ==
    \E r \in Rooms :
        /\ Len(rooms[r].players) >= 2
        /\ Alive(rooms[r]) = <<>>
        /\ rooms[r].gameState = "finished"
        /\ \E i \in Sent("gameOver") : emitted[i].data.winner = 0

\* C8: while a dead player keeps its slot nothing changes its health, its
\* alive flag, its position or its upgrades (its live-bomb counter can only
\* go down), no new bomb has it as owner, and no bombPlaced, playerMoved or
\* powerUpCollected event names its slot.
C8_DeadIsInert ==
    [][\A r \in Rooms : \A i \in DOMAIN rooms[r].players :
          LET p == rooms[r].players[i]
              after == rooms'[r].players
          IN (/\ ~p.isAlive
              /\ MapHas(after, p.id)
              /\ MapGet(after, p.id).socket = p.socket) =>
                 LET q == MapGet(after, p.id)
                 IN /\ q = [p EXCEPT !.bombCount = q.bombCount]
                    /\ q.bombCount <= p.bombCount
                    /\ \A b \in DOMAIN rooms'[r].bombs :
                          rooms'[r].bombs[b].owner = p.id =>
                              \E a \in DOMAIN rooms[r].bombs :
                                  rooms[r].bombs[a] = rooms'[r].bombs[b]
                    /\ \A e \in DOMAIN emitted' :
                          (/\ emitted'[e].event \in
                                 {"bombPlaced", "playerMoved", "powerUpCollected"}
                           /\ <<emitted'[e].to, r>> \in joined)
                              => emitted'[e].data.playerId # p.id]_vars

\* A match still being played in which a dead player, its socket connected
\* and bound to its slot, stands inside the blast of a live bomb while a
\* power-up lies on the field.
C8_Witness ==
    \E r \in Rooms : \E i \in DOMAIN rooms[r].players :
        LET p == rooms[r].players[i]
        IN /\ rooms[r].gameState = "playing"
           /\ r \in gameRooms
           /\ ~p.isAlive
           /\ p.socket \in sockets
           /\ p.socket \in DOMAIN playerSockets
           /\ playerSockets[p.socket] = [roomId |-> r, playerId |-> p.id]
           /\ rooms[r].powerUps # <<>>
           /\ \E b \in DOMAIN rooms[r].bombs :
                 LET areas == ExplosionAreasOf(rooms[r], rooms[r].bombs[b].id)
                 IN \E a \in DOMAIN areas : Within40(p, areas[a])

\* C9: every player's live-bomb counter is at most its bomb capacity.
C9_BombCountWithinCapacity ==
    \A r \in Rooms : \A i \in DOMAIN rooms[r].players :
        rooms[r].players[i].bombCount <= rooms[r].players[i].bombCapacity

\* A connected player of a running match whose counter equals its capacity
\* at a time at which it sends placeBomb again.
C9_Witness ==
    \E r \in Rooms : \E i \in DOMAIN rooms[r].players :
        LET p == rooms[r].players[i]
        IN /\ rooms[r].gameState = "playing"
           /\ p.isAlive
           /\ p.bombCount = p.bombCapacity
           /\ \E b \in DOMAIN rooms[r].bombs : rooms[r].bombs[b].owner = p.id
           /\ p.socket \in sockets
           /\ now % 1000 = 0
           /\ emitted = <<>>

\* C10: a bomb record enters the bomb table with its owner's bombPower of
\* that moment and is never altered afterwards, and the cells a detonation
\* reports are those calculateExplosion gives for the record's power.
C10_PowerFixedAtPlacement ==
    [][\A r \in Rooms :
          /\ \A b \in DOMAIN rooms'[r].bombs :
                LET bomb == rooms'[r].bombs[b]
                IN \/ \E a \in DOMAIN rooms[r].bombs : rooms[r].bombs[a] = bomb
                   \/ /\ bomb.placedAt = now
                      /\ MapHas(rooms[r].players, bomb.owner)
                      /\ bomb.power = MapGet(rooms[r].players, bomb.owner).bombPower
          /\ \A e \in DOMAIN emitted' :
                (Detonated(r) /\ emitted'[e].event = "bombExploded") =>
                    LET bomb == MapGet(rooms[r].bombs, emitted'[e].data.bombId)
                    IN emitted'[e].data.explosionAreas =
                           calculateExplosion(bomb.x, bomb.y, bomb.power,
                                              rooms[r].destructibleBlocks)]_vars

\* A blast of the initial power reported while the bomb's owner already
\* holds a higher power: the upgrade was collected with the bomb live.
C10_Witness ==
    \E r \in Rooms : \E e \in Sent("bombExploded") :
        LET areas == emitted[e].data.explosionAreas
            owner == emitted[e].data.bombId[2]
            blast(power) == calculateExplosion(areas[1].x, areas[1].y, power,
                                               rooms[r].destructibleBlocks)
        IN /\ MapHas(rooms[r].players, owner)
           /\ MapGet(rooms[r].players, owner).bombPower = StartBombPower + 1
           /\ areas = blast(StartBombPower)
           /\ areas # blast(StartBombPower + 1)

\* The step just taken ran the callback of timer t (it left the bag).
Fired(t) == CopiesIn(t, timers') < CopiesIn(t, timers)

\* C11: a fuse or chain callback for a bomb id that is no longer in the
\* room's bomb table changes no room, arms no timer and emits nothing.
C11_DetonateConsumedIsNoOp ==
    [][\A t \in BagToSet(timers) :
          (/\ t.kind \in {"fuse", "chain"}
           /\ Fired(t)
           /\ ~MapHas(rooms[t.room].bombs, t.bomb)) =>
              /\ rooms' = rooms
              /\ timers' = DropTimer(timers, t)
              /\ emitted' = <<>>
              /\ gameRooms' = gameRooms
              /\ playerSockets' = playerSockets]_vars

\* A fuse callback due for a bomb that a chain reaction has consumed.
C11_Witness ==
    \E t \in BagToSet(timers) :
        /\ t.kind = "fuse"
        /\ t.due = now + (StateUpdateDelay - ChainDelay)
        /\ ~MapHas(rooms[t.room].bombs, t.bomb)
        /\ Sent("bombExploded") # {}

\* C12: an accepted placement (the step announces bombPlaced and changes
\* room r) issues an id that is not in r's bomb table, so the table grows
\* by exactly that one entry and no live bomb is overwritten.
C12_BombIdsAreFresh ==
    [][\A r \in Rooms, i \in DOMAIN emitted' :
          (emitted'[i].event = "bombPlaced" /\ rooms'[r] # rooms[r]) =>
              /\ emitted'[i].data.bombId \notin MapKeys(rooms[r].bombs)
              /\ Len(rooms'[r].bombs) = Len(rooms[r].bombs) + 1]_vars

\* The detonation announcements for bomb id `id` that the step just taken
\* sent to socket `to`.
Announced(id, to) ==
    {i \in DOMAIN emitted' : /\ emitted'[i].event = "bombExploded"
                             /\ emitted'[i].data.bombId = id
                             /\ emitted'[i].to = to}

\* C13: an accepted placement is followed by exactly one detonation.  A
\* live bomb always has its fuse callback pending, due 3000 ms after the
\* placement; a bomb leaves the table only in a step that announces its
\* detonation, once to each player; and a detonation is announced only for
\* a bomb that was live and is consumed by that step.
C13_ExactlyOneDetonation ==
    [][\A r \in Rooms :
          /\ \A i \in DOMAIN rooms[r].bombs :
                LET bomb == rooms[r].bombs[i]
                IN /\ CopiesIn(Timer("fuse", r, bomb.id, bomb.placedAt + FuseTime),
                               timers) >= 1
                   /\ bomb.placedAt + FuseTime >= now
                   /\ (\A j \in DOMAIN rooms'[r].bombs : rooms'[r].bombs[j] # bomb) =>
                         \A p \in DOMAIN rooms[r].players :
                            Cardinality(Announced(bomb.id, rooms[r].players[p].socket)) = 1
          /\ \A e \in DOMAIN emitted' :
                emitted'[e].event = "bombExploded" =>
                    /\ MapHas(rooms[r].bombs, emitted'[e].data.bombId)
                    /\ ~MapHas(rooms'[r].bombs, emitted'[e].data.bombId)]_vars

\* Room r has a live bomb.
LiveBombs(r) == rooms[r].bombs # <<>>

\* Room r has no live bomb and no detonation callback pending.
Quiet(r) ==
    /\ rooms[r].bombs = <<>>
    /\ \A t \in BagToSet(timers) : t.kind \in {"fuse", "chain"} => t.room # r

\* C14: chain reactions terminate.  Every detonation that finds its bomb
\* removes it, so the number of live bombs strictly decreases; and once
\* bombs are live the room reaches a state with an empty bomb table and no
\* pending detonation callback.
C14_ChainsTerminate ==
    /\ [][\A t \in BagToSet(timers) :
             (/\ t.kind \in {"fuse", "chain"}
              /\ Fired(t)
              /\ MapHas(rooms[t.room].bombs, t.bomb)) =>
                 Len(rooms'[t.room].bombs) < Len(rooms[t.room].bombs)]_vars
    /\ \A r \in RoomIds : (r \in Rooms /\ LiveBombs(r)) ~> (r \in Rooms /\ Quiet(r))

\* A chain callback has just detonated the last live bomb of a room.
C14_Witness ==
    \E r \in Rooms :
        /\ rooms[r].bombs = <<>>
        /\ now % StateUpdateDelay = ChainDelay
        /\ Sent("bombExploded") # {}

\* C15: chain detonations are deferred.  A detonation removes exactly its
\* own bomb from the table; every other live bomb within 40 units of an
\* affected cell is still in the table, unchanged, after the step and has a
\* callback of its own due 50 ms later.
C15_ChainIsDeferred ==
    [][\A t \in BagToSet(timers) :
          (/\ t.kind \in {"fuse", "chain"}
           /\ Fired(t)
           /\ MapHas(rooms[t.room].bombs, t.bomb)) =>
              LET before == rooms[t.room].bombs
                  after == rooms'[t.room].bombs
                  areas == ExplosionAreasOf(rooms[t.room], t.bomb)
                  InBlast(b) ==
                      \E a \in DOMAIN areas :
                          (b.x - areas[a].x) * (b.x - areas[a].x)
                            + (b.y - areas[a].y) * (b.y - areas[a].y) < 1600
              IN /\ Len(after) = Len(before) - 1
                 /\ MapKeys(after) = MapKeys(before) \ {t.bomb}
                 /\ \A i \in DOMAIN before :
                       (before[i].id # t.bomb /\ InBlast(before[i])) =>
                          /\ \E j \in DOMAIN after : after[j] = before[i]
                          /\ CopiesIn(Timer("chain", t.room, before[i].id,
                                            now + ChainDelay), timers') >= 1]_vars

\* A blast has just reached a bomb that is still live, with its chain
\* callback pending 50 ms ahead.
C15_Witness ==
    \E t \in BagToSet(timers) :
        /\ t.kind = "chain"
        /\ t.due = now + ChainDelay
        /\ MapHas(rooms[t.room].bombs, t.bomb)
        /\ Sent("bombExploded") # {}

\* C16: damage per blast is exactly 0 or 25.  In one detonation a living
\* player loses 25 health if some affected cell is within 40 units of its
\* position, however many are, and nothing otherwise; it is dead afterwards
\* exactly when the hit left its health at 0 or below.
C16_DamagePerBlast ==
    [][\A t \in BagToSet(timers) :
          (/\ t.kind \in {"fuse", "chain"}
           /\ Fired(t)
           /\ MapHas(rooms[t.room].bombs, t.bomb)) =>
              LET areas == ExplosionAreasOf(rooms[t.room], t.bomb)
                  InBlast(p) ==
                      \E a \in DOMAIN areas :
                          (p.x - areas[a].x) * (p.x - areas[a].x)
                            + (p.y - areas[a].y) * (p.y - areas[a].y) < 1600
              IN /\ DOMAIN rooms'[t.room].players = DOMAIN rooms[t.room].players
                 /\ \A i \in DOMAIN rooms[t.room].players :
                       LET p == rooms[t.room].players[i]
                           q == rooms'[t.room].players[i]
                       IN p.isAlive =>
                             /\ q.health = p.health - (IF InBlast(p) THEN 25 ELSE 0)
                             /\ InBlast(p) => (q.isAlive <=> q.health > 0)
                             /\ ~InBlast(p) => q.isAlive]_vars

\* A first blast has just gone off under a player standing on its origin
\* cell and next to a player standing between two of its cells: both are at
\* 75 and alive.
C16_Witness ==
    \E r \in Rooms : \E e \in Sent("bombExploded") :
        LET areas == emitted[e].data.explosionAreas
        IN /\ \E i \in DOMAIN rooms[r].players :
                 LET p == rooms[r].players[i]
                 IN p.x = areas[1].x /\ p.y = areas[1].y
                    /\ p.health = 75 /\ p.isAlive
           /\ \E i \in DOMAIN rooms[r].players :
                 LET p == rooms[r].players[i]
                 IN /\ Cardinality({a \in DOMAIN areas :
                          (p.x - areas[a].x) * (p.x - areas[a].x)
                            + (p.y - areas[a].y) * (p.y - areas[a].y) < 1600}) >= 2
                    /\ p.health = 75 /\ p.isAlive

\* C17: every player's health is within [0, 100].
C17_HealthInRange ==
    \A r \in Rooms : \A i \in DOMAIN rooms[r].players :
        /\ rooms[r].players[i].health >= 0
        /\ rooms[r].players[i].health <= MaxHealth

\* Room r is full: as many occupied slots as its configured maximum.
Full(r) == Len(rooms[r].players) = rooms[r].maxPlayers

C19_FailedJoinOnlyReplies ==
    [][\A c \in Conns, roomId \in RoomIds, name \in NameInputs :
          (/\ JoinRoom(c, roomId, name)
           /\ c \notin DOMAIN playerSockets
           /\ (roomId \notin gameRooms \/ Full(roomId))) =>
              /\ Len(emitted') = 1
              /\ emitted'[1].to = c
              /\ emitted'[1].event = "error"
              /\ emitted'[1].data.message =
                    (IF roomId \notin gameRooms THEN "Room not found"
                                                ELSE "Room is full")
              /\ UNCHANGED <<gameRooms, rooms, playerSockets, transitioningPlayers,
                             joined, timers, sockets>>]_vars

\* An unbound connection has just been told that the room does not exist,
\* while other connections are seated in a room.
C19_Witness ==
    /\ \E i \in DOMAIN emitted :
          /\ emitted[i].event = "error"
          /\ emitted[i].data.message = "Room not found"
          /\ emitted[i].to \notin DOMAIN playerSockets
    /\ DOMAIN playerSockets # {}

\* The player connection c is bound to cannot act: c is unbound, its room
\* is gone or not playing, or its slot is absent or dead.
CannotAct(c) ==
    \/ c \notin DOMAIN playerSockets
    \/ playerSockets[c].roomId \notin gameRooms
    \/ LET room == rooms[playerSockets[c].roomId]
           slot == playerSockets[c].playerId
       IN \/ room.gameState # "playing"
          \/ \A i \in DOMAIN room.players :
                room.players[i].id = slot => ~room.players[i].isAlive

\* A placement of c at (x, y) is over capacity or lands on a live bomb's
\* cell.
BombRefused(c, x, y) ==
    LET room == rooms[playerSockets[c].roomId]
        slot == playerSockets[c].playerId
        cx == ((2 * x + GridSize) \div (2 * GridSize)) * GridSize
        cy == ((2 * y + GridSize) \div (2 * GridSize)) * GridSize
    IN \/ \E i \in DOMAIN room.players :
             /\ room.players[i].id = slot
             /\ room.players[i].bombCount >= room.players[i].bombCapacity
       \/ \E i \in DOMAIN room.bombs :
             /\ Abs(room.bombs[i].x - cx) < 32
             /\ Abs(room.bombs[i].y - cy) < 32

\* The step changed no room, armed or dropped no timer, touched no binding
\* and sent nothing.
Silent ==
    /\ emitted' = <<>>
    /\ UNCHANGED <<rooms, timers, gameRooms, playerSockets, joined, sockets,
                   transitioningPlayers>>

\* C20: a rejected intent is silent and has no effect.  A playerMove,
\* placeBomb or collectPowerUp from a connection that cannot act, a
\* placement over capacity or onto a live bomb's cell, and a collect of an
\* unknown power-up leave every room as it was, schedule nothing and emit
\* nothing: a step that is not silent is none of these.
C20_RejectedIntentIsSilent ==
    [][\/ Silent
       \/ /\ \A c \in Conns, xy \in MoveInputs :
                ~(CannotAct(c) /\ PlayerMove(c, xy[1], xy[2]))
          /\ \A c \in Conns, xy \in BombInputs :
                ~(/\ CannotAct(c) \/ BombRefused(c, xy[1], xy[2])
                  /\ PlaceBomb(c, xy[1], xy[2]))
          /\ \A c \in Conns :
                /\ ~CollectPowerUp(c, UnknownPowerUp)
                /\ ~(CannotAct(c) /\ \E id \in PowerUpInputs(c) :
                                         CollectPowerUp(c, id))]_vars

\* A match is on with a live bomb, a dead player and a player at its bomb
\* capacity, and the last intent was turned away without a word.
C20_Witness ==
    \E r \in Rooms :
        /\ rooms[r].gameState = "playing"
        /\ rooms[r].bombs # <<>>
        /\ \E i \in DOMAIN rooms[r].players : ~rooms[r].players[i].isAlive
        /\ \E i \in DOMAIN rooms[r].players :
              /\ rooms[r].players[i].isAlive
              /\ rooms[r].players[i].bombCount >= rooms[r].players[i].bombCapacity
        /\ emitted = <<>>

\* The player entry of the slot connection c is bound to, in room table
\* `table`.
SlotOf(c, table) ==
    LET room == table[playerSockets[c].roomId]
    IN room.players[CHOOSE i \in DOMAIN room.players :
                        room.players[i].id = playerSockets[c].playerId]

\* C21: a move of an existing living player to any integer target (x, y),
\* zero and negative values included, leaves the player at
\* (min(max(x, 32), 992), min(max(y, 32), 736)).
C21_MoveClamps ==
    [][\A c \in Conns, xy \in WideMoveInputs :
          (~CannotAct(c) /\ PlayerMove(c, xy[1], xy[2])) =>
              LET after == SlotOf(c, rooms')
                  cx == IF xy[1] < 32 THEN 32 ELSE IF xy[1] > 992 THEN 992 ELSE xy[1]
                  cy == IF xy[2] < 32 THEN 32 ELSE IF xy[2] > 736 THEN 736 ELSE xy[2]
              IN after.x = cx /\ after.y = cy]_vars

\* C22: blast cells stay inside the arena.  Every cell of every announced
\* explosion, the origin included, has 50 <= x <= 974 and 50 <= y <= 718.
C22_BlastInsideArena ==
    \A e \in Sent("bombExploded") :
        LET areas == emitted[e].data.explosionAreas
        IN \A a \in DOMAIN areas :
              /\ areas[a].x >= 50 /\ areas[a].x <= 974
              /\ areas[a].y >= 50 /\ areas[a].y <= 718

\* The cell `j` grid steps from bomb `b` in direction number d.
StepCell(b, d, j) ==
    Cell(b.x + Directions[d].x * 64 * j, b.y + Directions[d].y * 64 * j)

InsideBounds(c) == c.x >= 50 /\ c.x <= 974 /\ c.y >= 50 /\ c.y <= 718

HoldsBlock(blocks, c) ==
    \E i \in DOMAIN blocks : Abs(blocks[i].x - c.x) < 32 /\ Abs(blocks[i].y - c.y) < 32

\* How far the blast of b reaches in direction d: the largest k up to the
\* power with the steps 1..k inside the bounds and no block before step k.
Reach(b, blocks, d) ==
    LET ok == {k \in 0..b.power :
                  \A j \in 1..k : /\ InsideBounds(StepCell(b, d, j))
                                  /\ j < k => ~HoldsBlock(blocks, StepCell(b, d, j))}
    IN CHOOSE k \in ok : \A m \in ok : m <= k

BlastShape(b, blocks) ==
    LET ray(d) == [j \in 1..Reach(b, blocks, d) |-> StepCell(b, d, j)]
    IN <<Cell(b.x, b.y)>> \o ray(1) \o ray(2) \o ray(3) \o ray(4)

\* C23: blast shape.  The cells of a detonation are the origin and, along
\* each of the four directions, exactly the steps 1..k, where k is cut by
\* the bomb's power, by the bounds and by the first cell holding a
\* destructible block, that cell included.
C23_BlastShape ==
    [][\A t \in BagToSet(timers) :
          (/\ t.kind \in {"fuse", "chain"}
           /\ Fired(t)
           /\ MapHas(rooms[t.room].bombs, t.bomb)) =>
              LET b == MapGet(rooms[t.room].bombs, t.bomb)
                  shape == BlastShape(b, rooms[t.room].destructibleBlocks)
              IN /\ ExplosionAreasOf(rooms[t.room], t.bomb) = shape
                 /\ \A i \in DOMAIN emitted' :
                       emitted'[i].event = "bombExploded" =>
                           emitted'[i].data.explosionAreas = shape]_vars

\* A blast from cell (128, 64) has just been cut short by the block two
\* steps down (that cell is in, the next is not) and by the bounds upwards.
C23_Witness ==
    \E e \in Sent("bombExploded") :
        LET areas == emitted[e].data.explosionAreas
            cells == {areas[a] : a \in DOMAIN areas}
        IN /\ areas[1] = Cell(128, 64)
           /\ emitted[e].data.destroyedBlocks # <<>>
           /\ Cell(128, 192) \in cells
           /\ Cell(128, 256) \notin cells
           /\ Cell(128, 0) \notin cells
           /\ Cell(320, 64) \in cells

\* The sockets the step just taken sent event `ev` to.
Recipients(ev) == {emitted'[i].to : i \in {j \in DOMAIN emitted' : emitted'[j].event = ev}}

\* C24: auto-start fires exactly when the room can still start.  A join
\* that leaves a waiting room with at least 2 occupied slots arms a callback
\* 2000 ms ahead; when the callback runs, the room becomes playing and
\* gameStarted goes to its players if the room is still waiting with at
\* least 2 occupied slots, and otherwise nothing changes and nothing is
\* sent.
C24_AutoStartIffCanStart ==
    [][/\ \A r \in Rooms :
             (/\ Recipients("roomJoined") # {}
              /\ rooms'[r] # rooms[r]
              /\ rooms'[r].gameState = "waiting"
              /\ Len(rooms'[r].players) >= 2) =>
                 CopiesIn(Timer("autostart", r, NoBomb, now + 2000), timers')
                    = CopiesIn(Timer("autostart", r, NoBomb, now + 2000), timers) + 1
       /\ \A t \in BagToSet(timers) :
             (t.kind = "autostart" /\ Fired(t)) =>
                 LET room == rooms[t.room]
                 IN IF room.gameState = "waiting" /\ Len(room.players) >= 2
                    THEN /\ rooms'[t.room].gameState = "playing"
                         /\ rooms'[t.room].players = room.players
                         /\ Recipients("gameStarted") =
                               {room.players[i].socket : i \in DOMAIN room.players}
                                   \cap sockets
                    ELSE /\ rooms' = rooms
                         /\ emitted' = <<>>]_vars

\* The clock stands at the auto-start of a join made at time 0, every
\* callback has run, and the rooms are all still waiting: the players had
\* left, and the registered room that is left has one occupied slot.
C24_Witness ==
    /\ now = AutoStartDelay
    /\ timers = EmptyBag
    /\ \A r \in Rooms : rooms[r].gameState = "waiting"
    /\ \E r \in Rooms : r \in gameRooms /\ Len(rooms[r].players) = 1

\* No two entries of a bomb table are within half a grid cell of each
\* other on both axes.
CellsApart(bombs) ==
    \A i, j \in DOMAIN bombs :
        i # j => \/ Abs(bombs[i].x - bombs[j].x) >= 32
                 \/ Abs(bombs[i].y - bombs[j].y) >= 32

\* C25: no two live bombs share a cell, and a placement that snaps onto a
\* live bomb's cell is rejected without touching the room (the owner's
\* live-bomb counter included).
C25_OneBombPerCell ==
    [][/\ \A r \in Rooms : CellsApart(rooms[r].bombs) /\ CellsApart(rooms'[r].bombs)
       /\ \A c \in Conns, xy \in WideBombInputs :
             (/\ ~CannotAct(c)
              /\ LET room == rooms[playerSockets[c].roomId]
                 IN \E i \in DOMAIN room.bombs :
                       /\ Abs(room.bombs[i].x - SnapToGrid(xy[1])) < 32
                       /\ Abs(room.bombs[i].y - SnapToGrid(xy[2])) < 32
              /\ PlaceBomb(c, xy[1], xy[2])) =>
                 /\ rooms' = rooms
                 /\ timers' = timers
                 /\ emitted' = <<>>]_vars

\* Right after the start one bomb is live, the other player is alive with
\* no bomb out, and the last intent handled was turned away in silence.
C25_Witness ==
    \E r \in Rooms :
        /\ now = AutoStartDelay
        /\ Len(rooms[r].bombs) = 1
        /\ \E i \in DOMAIN rooms[r].players :
              /\ rooms[r].players[i].id # rooms[r].bombs[1].owner
              /\ rooms[r].players[i].isAlive
              /\ rooms[r].players[i].bombCount = 0
        /\ emitted = <<>>

\* Every power-up of a registered room in table `table` at time `t` is at
\* most 15 s plus one sweep interval old.
PowerUpsFresh(table, t) ==
    \A r \in DOMAIN table :
        r \in gameRooms =>
            \A i \in DOMAIN table[r].powerUps :
                t - table[r].powerUps[i].spawnedAt <= 15000 + 30000

\* C26: power-up expiry is bounded.  A power-up of a registered room is
\* never more than 15 s plus one 30 s sweep interval old, and the sweep
\* removes no power-up younger than 15 s.
C26_PowerUpExpiry ==
    [][/\ PowerUpsFresh(rooms, now)
       /\ gameRooms' = gameRooms => PowerUpsFresh(rooms', now')
       /\ \A t \in BagToSet(timers) :
             (t.kind = "sweep" /\ Fired(t)) =>
                 \A r \in Rooms : \A i \in DOMAIN rooms[r].powerUps :
                     LET pu == rooms[r].powerUps[i]
                     IN ~MapHas(rooms'[r].powerUps, pu.id) =>
                           now - pu.spawnedAt >= 15000]_vars

\* Room r has no player and is not playing.
Idle(room) == Len(room.players) = 0 /\ room.gameState # "playing"

\* C27: empty rooms are cleaned up.  After every handler and timer callback
\* no registered room is empty and not playing, and a room leaves the
\* registry only with an empty slot table.
C27_EmptyRoomsCleaned ==
    [][/\ \A r \in gameRooms' : ~Idle(rooms'[r])
       /\ \A r \in gameRooms \ gameRooms' : Len(rooms'[r].players) = 0]_vars

\* The second half of C27 alone: a room leaves the registry only with an
\* empty slot table.
C27_RemovedOnlyEmpty ==
    [][\A r \in gameRooms \ gameRooms' : Len(rooms'[r].players) = 0]_vars

\* An emptied room that was playing and a detonation has finished.
C27_FinishedEmpty ==
    \E r \in gameRooms :
        Len(rooms[r].players) = 0 /\ rooms[r].gameState = "finished"

\* This step is a join of connection c that resumed a slot of a playing
\* room: the reply carries isReconnecting = TRUE.
ResumedPlaying(c) ==
    /\ \E i \in DOMAIN emitted' :
          /\ emitted'[i].to = c
          /\ emitted'[i].event = "roomJoined"
          /\ emitted'[i].data.isReconnecting
    /\ rooms'[playerSockets'[c].roomId].gameState = "playing"

\* Connection c is sent event ev by this step.
Gets(c, ev) ==
    \E i \in DOMAIN emitted' : emitted'[i].to = c /\ emitted'[i].event = ev

SeatedIn(room) == {room.players[i].socket : i \in DOMAIN room.players}

\* C29: new seats are allocated only while waiting.  No step seats a
\* connection in a room whose phase is playing or finished.
C29_SeatsOnlyWhileWaiting ==
    [][\A r \in DOMAIN rooms :
          rooms[r].gameState # "waiting" =>
              SeatedIn(rooms'[r]) \subseteq SeatedIn(rooms[r])]_vars

\* C30: join is refused only for capacity.  In every registered room with
\* fewer players than maxPlayers, addPlayer raises no fault and returns a
\* player with health 100, alive, capacity 1, no live bomb and one of the
\* four spawn positions.
C30_JoinSeatsWhileRoom ==
    \A r \in gameRooms :
        Len(rooms[r].players) < rooms[r].maxPlayers =>
            /\ ~addPlayerThrows(rooms[r])
            /\ LET res == addPlayer(rooms[r], 0, "")
               IN /\ res.ok
                  /\ res.player.health = 100
                  /\ res.player.isAlive
                  /\ res.player.bombCapacity = 1
                  /\ res.player.bombCount = 0
                  /\ \E i \in DOMAIN SpawnPositions :
                        /\ res.player.x = SpawnPositions[i].x
                        /\ res.player.y = SpawnPositions[i].y

\* C31: binding consistency.  Every entry c -> (room, slot) of playerSockets
\* names a registered room whose slot is held by a player whose socket is c.
C31_BindingConsistent ==
    \A c \in DOMAIN playerSockets :
        LET b == playerSockets[c]
        IN /\ b.roomId \in gameRooms
           /\ MapHas(rooms[b.roomId].players, b.playerId)
           /\ MapGet(rooms[b.roomId].players, b.playerId).socket = c

\* The seats of registered rooms held by connection c.
SeatsOf(c) ==
    UNION {{<<r, i>> : i \in {j \in DOMAIN rooms[r].players :
                                rooms[r].players[j].socket = c}} :
           r \in gameRooms}

\* C32: one seat per connection.  No connection is the socket of more than
\* one player across the registered rooms.
C32_OneSeatPerConnection ==
    \A c \in Conns : Cardinality(SeatsOf(c)) <= 1

\* This step is a join that resumed a slot: its reply carries
\* isReconnecting = TRUE.
Resumed ==
    \E i \in DOMAIN emitted' :
        emitted'[i].event = "roomJoined" /\ emitted'[i].data.isReconnecting

\* C33: a resume never takes a seat from a connected player.  A join that
\* resumes a slot leaves the socket of every slot whose socket is connected
\* as it was.
C33_ResumeSparesConnected ==
    [][Resumed =>
          \A r \in gameRooms : \A i \in DOMAIN rooms[r].players :
              LET p == rooms[r].players[i]
              IN p.socket \in sockets =>
                    /\ MapHas(rooms'[r].players, p.id)
                    /\ MapGet(rooms'[r].players, p.id).socket = p.socket]_vars

\* The number of bombs of a room's table that slot `playerId` owns.
OwnedBombs(room, playerId) ==
    Cardinality({i \in DOMAIN room.bombs : room.bombs[i].owner = playerId})

\* C34: live-bomb accounting.  Every player's bombCount is the number of
\* bombs of its room's table that it owns.
C34_BombCountIsOwnedBombs ==
    \A r \in Rooms : \A i \in DOMAIN rooms[r].players :
        rooms[r].players[i].bombCount
            = OwnedBombs(rooms[r], rooms[r].players[i].id)

\* The part of C34 in parentheses: no live-bomb counter is negative.
C34_BombCountNotNegative ==
    \A r \in Rooms : \A i \in DOMAIN rooms[r].players :
        rooms[r].players[i].bombCount >= 0

\* C35: gameOver is emitted at most once per room.  The callback of a
\* fuse or chain timer of a room that is already finished sends no
\* gameOver.
C35_GameOverOnce ==
    [][\A t \in BagToSet(timers) :
          (/\ t.kind \in {"fuse", "chain"}
           /\ Fired(t)
           /\ rooms[t.room].gameState = "finished") =>
              Recipients("gameOver") = {}]_vars

\* C36: start happens at most once per room.  An auto-start callback that
\* finds its room started changes nothing and sends nothing; a callback
\* that sends gameStarted takes its room from waiting to playing, and a
\* start time, once set, stays.
C36_StartOnce ==
    [][/\ \A t \in BagToSet(timers) :
             (/\ t.kind = "autostart"
              /\ Fired(t)
              /\ rooms[t.room].gameState # "waiting") =>
                 /\ rooms' = rooms
                 /\ transitioningPlayers' = transitioningPlayers
                 /\ emitted' = <<>>
       /\ \A t \in BagToSet(timers) :
             (/\ t.kind = "autostart"
              /\ Fired(t)
              /\ Recipients("gameStarted") # {}) =>
                 /\ rooms[t.room].gameState = "waiting"
                 /\ rooms'[t.room].gameState = "playing"
       /\ \A r \in Rooms :
             rooms[r].gameStartTime # NoTime =>
                 rooms'[r].gameStartTime = rooms[r].gameStartTime]_vars

\* Two joins at time 0 armed two callbacks for one room, and both have
\* run: the room of three is playing at the start time, the snapshot of the
\* one start is still pending and no auto-start callback is.
C36_Witness ==
    \E r \in Rooms :
        /\ now = AutoStartDelay
        /\ Len(rooms[r].players) = 3
        /\ rooms[r].gameState = "playing"
        /\ rooms[r].gameStartTime = AutoStartDelay
        /\ \A t \in BagToSet(timers) : t.kind # "autostart"
        /\ CopiesIn(Timer("stateUpdate", r, NoBomb, AutoStartDelay + StateUpdateDelay),
                    timers) = 1
        /\ emitted = <<>>

\* Room r is playing with at most one player left in it.
LeftAlone(r) ==
    /\ r \in DOMAIN rooms
    /\ rooms[r].gameState = "playing"
    /\ Len(rooms[r].players) <= 1

\* C37: a match does not get stuck in playing.  A room that is playing
\* with at most one player left becomes finished.
C37_LeaveEndsMatch ==
    \A r \in RoomIds :
        LeftAlone(r) ~> (r \in DOMAIN rooms /\ rooms[r].gameState = "finished")

\* Why the match of C37 stays stuck: no step takes a playing room whose
\* bomb table is empty out of playing.
C37_PlayingWithoutBombStays ==
    [][\A r \in Rooms :
          (rooms[r].gameState = "playing" /\ rooms[r].bombs = <<>>) =>
              rooms'[r].gameState = "playing"]_vars

====
